---- MODULE Spec2Model ----
(***************************************************************************)
(* ProductionMonitorWidget of js/moondream-demo.js: the continuous        *)
(* shot-quality monitor.  Seven monitors (orientation, talking, focus,    *)
(* lighting, presence, composition, sceneContext) are written by a         *)
(* periodic cycle (setInterval 1500 ms), by the FaceMesh landmark          *)
(* callback and by the callbacks of the throttled /detect and /caption     *)
(* calls.  JavaScript runs each handler to completion, so every handler is *)
(* one action; startMonitoring is split at its three statements so that    *)
(* their order is visible, and no other handler runs between the parts.    *)
(*                                                                         *)
(* Init is the widget right after `new ProductionMonitorWidget()` and      *)
(* mount(): Dashboard.openWidget and MoonDemo.mountWidget construct and    *)
(* mount in one synchronous step, and the click handlers through which     *)
(* every operation is reached are installed by render().  MediaCapture is  *)
(* shared by all widgets of the page and the FaceMesh and OpenCV scripts   *)
(* may be on the page already, so a webcam stream and either library may   *)
(* or may not be there at that moment.                                     *)
(*                                                                         *)
(* Coordinates, box edges and thresholds are integers in thousandths       *)
(* (0.15 is 150); means are kept as exact fractions (sum, count).          *)
(* Time is Date.now() in milliseconds.                                     *)
(***************************************************************************)
EXTENDS Integers, Sequences, FiniteSets, TLC

VARIABLES
    monitors,           \* this._monitors: key -> [enabled, status, class]
    isMonitoring,       \* this._isMonitoring
    monitorInterval,    \* this._monitorInterval: [armed, due], due the time the timer is next due
    landmarkHistory,    \* this._landmarkHistory
    talkingState,       \* this._talkingState
    lastMoonDreamCall,  \* this._lastMoonDreamCall
    faceMesh,           \* this._faceMesh is set (setupFaceMesh has run)
    cvReady,            \* this._cvReady
    stream,             \* MediaCapture.stream is set
    currentImage,       \* this._currentImage is set
    imageCanvasWidth,   \* this._media.imageCanvas.width
    sceneText,          \* this._sceneText.textContent
    mounted,            \* this.rootEl is set: the widget is on the page
    now,                \* Date.now()
    pc,                 \* position inside startMonitoring, "idle" between handlers
    landmarkPending,    \* FaceMesh passes sent and not yet answered
    detectCalls,        \* /detect calls in flight: the time each was issued
    captionCalls,       \* /caption calls in flight: the time each was issued
    detectFlags,        \* history: the presence and composition flags each /detect call was issued under
    calls,              \* collaborator calls made by the handler that ran last, in order
    batchTimes,         \* history: the times at which a cycle issued a remote batch
    clicks              \* user actions left to the run

vars == <<monitors, isMonitoring, monitorInterval, landmarkHistory, talkingState,
          lastMoonDreamCall, faceMesh, cvReady, stream, currentImage,
          imageCanvasWidth, sceneText, mounted, now, pc, landmarkPending, detectCalls, captionCalls, detectFlags, calls,
          batchTimes, clicks>>

-----------------------------------------------------------------------------
(* Program constants *)

Keys == {"orientation", "talking", "focus", "lighting", "presence", "composition", "sceneContext"}

ThrottleWindow == 2000
CyclePeriod == 1500
HistorySize == 5
TalkDebounce == 150
OrientationTolerance == 150
LipThreshold == 18

NOSE_TIP == 1
LEFT_FACE == 234
RIGHT_FACE == 454
UPPER_LIP == 13
LOWER_LIP == 14
LEFT_EYE == 33
RIGHT_EYE == 263

LmIdx == {NOSE_TIP, LEFT_FACE, RIGHT_FACE, UPPER_LIP, LOWER_LIP, LEFT_EYE, RIGHT_EYE}

\* this._monitorInterval = null
NoInterval == [armed |-> FALSE, due |-> 0]

InitialSceneText == "Start monitoring to see AI scene analysis..."

-----------------------------------------------------------------------------
(* Bounds of the model *)

MaxTicks == 4           \* the clock runs from StartTime to StartTime + MaxTicks * TimeStep
MaxClicks == 2          \* user actions (clicks, uploads, closing the widget) in a run

\* Date.now() when the widget is constructed: any time of day, far from the 0 that
\* this._lastMoonDreamCall starts at.
StartTime == 5 * ThrottleWindow

\* The clock of the model moves in steps of half a throttle window, so that a cycle can
\* fall exactly a window after a batch, and a timer can fire late.
TimeStep == ThrottleWindow \div 2

EndTime == StartTime + MaxTicks * TimeStep

MaxCycles == 5          \* timer periods the clock of SpecCycles runs through

\* The clock of SpecCycles moves in thirds of the timer period, so that the timer
\* fires at the moment it is due.
CycleStep == CyclePeriod \div 3

CyclesEndTime == StartTime + MaxCycles * CyclePeriod

MaxLitCycles == 2       \* timer periods of SpecLighting
LightingEndTime == StartTime + MaxLitCycles * CyclePeriod

MaxLiveCycles == 1      \* timer periods the clock of SpecLive runs through before it starts over
LiveEndTime == StartTime + MaxLiveCycles * CyclePeriod

\* The code reads Date.now() only in the differences now - _lastMoonDreamCall and
\* now - _talkingState.lastChange, so the clock of SpecLive can start over: at its end
\* every time in the state is moved back by LiveSpan, and a time that lies SlideCap or
\* more in the past, beyond the throttle window and the debounce, stays SlideCap back.
LiveSpan == MaxLiveCycles * CyclePeriod
SlideCap == 2 * ThrottleWindow

MaxTalkTicks == 14      \* steps of the clock of SpecTalking

\* The clock of SpecTalking moves in thirds of the debounce time.
TalkStep == TalkDebounce \div 3

-----------------------------------------------------------------------------
(* Values *)

Abs(a) == IF a < 0 THEN -a ELSE a

St(status, statusClass) == [status |-> status, class |-> statusClass]

Pt(x, y, z) == [x |-> x, y |-> y, z |-> z]

\* A landmark frame is the array MediaPipe delivers, restricted to the indices the
\* analyzers read: a frame of length len defines exactly the indices below len.
LandmarkFrame(len, pts) == [i \in {j \in LmIdx : j < len} |-> pts[i]]

\* Face looking straight at the camera, mouth closed.
StraightPts ==
    [i \in LmIdx |->
        CASE i = NOSE_TIP   -> Pt(500, 500, -50)
          [] i = LEFT_FACE  -> Pt(300, 500, 0)
          [] i = RIGHT_FACE -> Pt(700, 500, 20)
          [] i = UPPER_LIP  -> Pt(500, 600, 0)
          [] i = LOWER_LIP  -> Pt(500, 610, 0)
          [] i = LEFT_EYE   -> Pt(400, 400, 0)
          [] OTHER          -> Pt(600, 400, 0)]

\* Face turned: the nose is far from the left edge and close to the right one, mouth open.
TurnedPts ==
    [i \in LmIdx |->
        CASE i = NOSE_TIP   -> Pt(660, 500, -50)
          [] i = LEFT_FACE  -> Pt(300, 500, 0)
          [] i = RIGHT_FACE -> Pt(700, 500, 20)
          [] i = UPPER_LIP  -> Pt(600, 600, 0)
          [] i = LOWER_LIP  -> Pt(600, 650, 0)
          [] i = LEFT_EYE   -> Pt(450, 400, 0)
          [] OTHER          -> Pt(650, 400, 0)]

FrameStraight == LandmarkFrame(478, StraightPts)
FrameTurned == LandmarkFrame(478, TurnedPts)

\* What a FaceMesh pass can deliver as results.multiFaceLandmarks: no face, or one face.
Frames == {FrameStraight}
NoFace == <<>>
LandmarkResults == {NoFace} \cup {<<f>> : f \in Frames}

\* Frames that lack landmarks: one of 300 points has no RIGHT_FACE, one of 14 points
\* has only the nose tip and the upper lip of the points the analyzers read.
FrameNoRightEdge == LandmarkFrame(300, StraightPts)
FrameNoseAndLip == LandmarkFrame(14, StraightPts)
FaultResults == {NoFace, <<FrameStraight>>, <<FrameNoRightEdge>>, <<FrameNoseAndLip>>}

\* Landmarks without the optional z, a little to the right of StraightPts.
FlatPts == [i \in LmIdx |-> [x |-> StraightPts[i].x + 10, y |-> StraightPts[i].y]]

\* The frames the smoother is tried on: a full face with z, a full face without z,
\* and a turned face cut off before the right face edge.
FrameFlat == LandmarkFrame(478, FlatPts)
FrameCut == LandmarkFrame(300, TurnedPts)
SmootherFrames == {FrameStraight, FrameFlat, FrameCut}

\* A face whose nose tip is at x, the face edges at 0.3 and 0.7, and the nose positions
\* analyzeOrientation is tried on: centred, at the tolerance on either side, and just
\* beyond it.
NoseFrame(x) == LandmarkFrame(478, [StraightPts EXCEPT ![NOSE_TIP] = Pt(x, 500, -50)])
NoseXs ==
    {500, 500 + OrientationTolerance \div 2, 500 + OrientationTolerance \div 2 + 1,
     500 - OrientationTolerance \div 2, 500 - OrientationTolerance \div 2 - 1}

\* Keys that name no monitor.
OtherKeys == {"exposure", "audio"}

\* A face whose lips are gap thousandths apart, and the gaps analyzeTalking is tried
\* on: closed, at the threshold, just above it, open.
LipFrame(gap) ==
    LandmarkFrame(478, [StraightPts EXCEPT ![LOWER_LIP] = Pt(500, StraightPts[UPPER_LIP].y + gap, 0)])
LipGaps == {10, LipThreshold, LipThreshold + 1, 30}

\* A /detect box, edges in thousandths of the frame.
Box(x_min, y_min, x_max, y_max) == [x_min |-> x_min, y_min |-> y_min, x_max |-> x_max, y_max |-> y_max]

BoxCentered == Box(350, 300, 650, 700)
BoxCloseOffCentre == Box(0, 200, 560, 800)

\* The box of width w and height h centred at (cx, cy).
BoxAt(cx, cy, w, h) == Box(cx - w \div 2, cy - h \div 2, cx + w \div 2, cy + h \div 2)

\* The boxes the composition analysis is tried on: sizes and centres at, and on both
\* sides of, its thresholds, as far as the box lies within the frame.
BoxSizes ==
    {<<300, 400>>, <<500, 600>>, <<600, 400>>, <<300, 700>>, <<100, 150>>, <<150, 150>>,
     <<100, 200>>}
BoxCentresX == {250, 300, 500, 700, 750}
BoxCentresY == {200, 250, 500, 750, 800}
CompositionBoxes ==
    {b \in {BoxAt(cx, cy, wh[1], wh[2]) : cx \in BoxCentresX, cy \in BoxCentresY, wh \in BoxSizes} :
        b.x_min >= 0 /\ b.y_min >= 0 /\ b.x_max <= 1000 /\ b.y_max <= 1000}

\* response.objects of the /detect calls of SpecComposition: one box, or a box
\* followed by a second one.
CompositionBodies ==
    {<<b>> : b \in CompositionBoxes} \cup {<<b, BoxCloseOffCentre>> : b \in {BoxCentered, BoxAt(250, 500, 100, 150)}}

\* How the XMLHttpRequest of ApiClient._request can end: it is never sent (no API key),
\* onload with a status and a body that parses as JSON or does not, onerror, ontimeout.
Xhr(type, status, parses) == [type |-> type, status |-> status, parses |-> parses]
XhrTimeout == Xhr("timeout", 0, FALSE)
XhrEvents ==
    {Xhr("nokey", 0, FALSE), Xhr("load", 200, TRUE), Xhr("load", 200, FALSE),
     Xhr("load", 401, TRUE), Xhr("load", 429, TRUE), Xhr("load", 500, TRUE),
     Xhr("error", 0, FALSE), XhrTimeout}

\* The request is answered with status 200 and a JSON body.
XhrOk == Xhr("load", 200, TRUE)

\* ApiClient._request: the promise resolves (else it is rejected).
ApiClient_request(ev) == ev.type = "load" /\ ev.status >= 200 /\ ev.status < 300 /\ ev.parses

\* What a /detect call can end in: its promise is rejected, or resolved with a response.
DetectRejected == [ok |-> FALSE, objects |-> <<>>]
DetectResponse(objects) == [ok |-> TRUE, objects |-> objects]
DetectBodies == {<<>>, <<BoxCentered>>}
ApiClient_detect(ev, objects) == IF ApiClient_request(ev) THEN DetectResponse(objects) ELSE DetectRejected

\* What a /caption call can end in: rejected, or resolved with response.caption.
CaptionRejected == [ok |-> FALSE, caption |-> ""]
CaptionResponse(caption) == [ok |-> TRUE, caption |-> caption]
CaptionBodies == {"A person at a desk"}
ApiClient_caption(ev, text) == IF ApiClient_request(ev) THEN CaptionResponse(text) ELSE CaptionRejected

\* Average luminance analyzeLighting can measure, and the sharpness analyzeFocus can.
LumInputs == {120}

\* Every whole average brightness of an 8-bit frame.
Luminances == 0..255
VarianceInputs == {20}

\* The whole sharpness values analyzeFocus is tried on, on both sides of its thresholds.
FocusValues == 0..20

\* The size of the webcam stream, and the widths an uploaded image is drawn at (a canvas
\* is 300 wide until then).
VideoSize == <<640, 480>>
UploadWidths == {300}

-----------------------------------------------------------------------------
(* The status aggregator *)

\* render() gives every monitor its card (monitor.element).
element == [k \in Keys |-> TRUE]

\* updateMonitorStatus(key, status, statusClass) applied to the monitor map m.
updateMonitorStatus(m, key, status, statusClass) ==
    IF key \notin DOMAIN m \/ ~element[key]
    THEN m
    ELSE [m EXCEPT ![key].status = status, ![key].class = statusClass]

\* toggleMonitor as it would be if an unknown key were given a monitor of its own.
toggleMonitor_AddsKey(m, key) ==
    IF key \notin DOMAIN m
    THEN [k \in DOMAIN m \cup {key} |->
             IF k = key THEN [enabled |-> TRUE, status |-> "N/A", class |-> "disabled"]
             ELSE m[k]]
    ELSE LET flipped == [m EXCEPT ![key].enabled = ~m[key].enabled] IN
         IF element[key] /\ ~flipped[key].enabled
         THEN updateMonitorStatus(flipped, key, "OFF", "disabled")
         ELSE flipped

\* The monitor map after toggleMonitor(key).
toggleMonitor(m, key) ==
    IF key \notin DOMAIN m
    THEN m
    ELSE LET flipped == [m EXCEPT ![key].enabled = ~m[key].enabled] IN
         IF element[key] /\ ~flipped[key].enabled
         THEN updateMonitorStatus(flipped, key, "OFF", "disabled")
         ELSE flipped

-----------------------------------------------------------------------------
(* The landmark smoother *)

\* The push of smoothLandmarks as it would be if the shift came one frame early.
pushHistory_ShiftEarly(history, newLandmarks) ==
    LET pushed == Append(history, newLandmarks) IN
    IF Len(pushed) >= HistorySize THEN Tail(pushed) ELSE pushed

\* this._landmarkHistory after the push and the shift of smoothLandmarks.
pushHistory(history, newLandmarks) ==
    LET pushed == Append(history, newLandmarks) IN
    IF Len(pushed) > HistorySize THEN Tail(pushed) ELSE pushed

RECURSIVE sumOver(_, _, _, _)
\* The sum, over the frames j..Len(history) that define index i, of coordinate c;
\* a falsy z (0 or absent) adds nothing.
sumOver(history, i, c, j) ==
    IF j > Len(history) THEN 0
    ELSE (IF i \in DOMAIN history[j]
          THEN (CASE c = "x" -> history[j][i].x
                  [] c = "y" -> history[j][i].y
                  [] c = "z" -> IF "z" \in DOMAIN history[j][i] THEN history[j][i].z ELSE 0
                  [] OTHER   -> 1)
          ELSE 0)
         + sumOver(history, i, c, j + 1)

\* The array smoothLandmarks returns, history being the history after the push:
\* point i is (x/n, y/n, z/n), kept as the three sums and the count n.
smoothLandmarks(history, newLandmarks) ==
    [i \in DOMAIN newLandmarks |->
        LET count == sumOver(history, i, "count", 1) IN
        IF count > 0
        THEN [x |-> sumOver(history, i, "x", 1), y |-> sumOver(history, i, "y", 1),
              z |-> sumOver(history, i, "z", 1), n |-> count]
        ELSE [x |-> newLandmarks[i].x, y |-> newLandmarks[i].y,
              z |-> IF "z" \in DOMAIN newLandmarks[i] THEN newLandmarks[i].z ELSE 0,
              n |-> 1]]

-----------------------------------------------------------------------------
(* The analyzers: each yields the status it writes *)

\* analyzeOrientation as it would be if a missing landmark were reported as no face.
analyzeOrientation_MissingIsNoFace(landmarks) ==
    IF NOSE_TIP \notin DOMAIN landmarks \/ LEFT_FACE \notin DOMAIN landmarks
       \/ RIGHT_FACE \notin DOMAIN landmarks
    THEN St("NO FACE", "bad")
    ELSE LET nose == landmarks[NOSE_TIP]
             left == landmarks[LEFT_FACE]
             right == landmarks[RIGHT_FACE]
             a == Abs(nose.x * left.n - left.x * nose.n)
             b == nose.n * left.n
             c == Abs(nose.x * right.n - right.x * nose.n)
             d == nose.n * right.n
         IN  IF Abs(a * d - c * b) <= OrientationTolerance * b * d
             THEN St("STRAIGHT", "good")
             ELSE IF a * d > c * b THEN St("LEFT", "bad") ELSE St("RIGHT", "bad")

\* analyzeOrientation as it would be if a difference of exactly 0.15 counted as turned.
analyzeOrientation_Strict(landmarks) ==
    IF NOSE_TIP \notin DOMAIN landmarks \/ LEFT_FACE \notin DOMAIN landmarks
       \/ RIGHT_FACE \notin DOMAIN landmarks
    THEN St("ERROR", "warning")
    ELSE LET nose == landmarks[NOSE_TIP]
             left == landmarks[LEFT_FACE]
             right == landmarks[RIGHT_FACE]
             a == Abs(nose.x * left.n - left.x * nose.n)
             b == nose.n * left.n
             c == Abs(nose.x * right.n - right.x * nose.n)
             d == nose.n * right.n
         IN  IF Abs(a * d - c * b) < OrientationTolerance * b * d
             THEN St("STRAIGHT", "good")
             ELSE IF a * d > c * b THEN St("LEFT", "bad") ELSE St("RIGHT", "bad")

\* analyzeOrientation(landmarks): noseToLeft = a/b, noseToRight = c/d, diff = |a/b - c/d|.
analyzeOrientation(landmarks) ==
    IF NOSE_TIP \notin DOMAIN landmarks \/ LEFT_FACE \notin DOMAIN landmarks
       \/ RIGHT_FACE \notin DOMAIN landmarks
    THEN St("ERROR", "warning")
    ELSE LET nose == landmarks[NOSE_TIP]
             left == landmarks[LEFT_FACE]
             right == landmarks[RIGHT_FACE]
             a == Abs(nose.x * left.n - left.x * nose.n)
             b == nose.n * left.n
             c == Abs(nose.x * right.n - right.x * nose.n)
             d == nose.n * right.n
         IN  IF Abs(a * d - c * b) <= OrientationTolerance * b * d
             THEN St("STRAIGHT", "good")
             ELSE IF a * d > c * b THEN St("LEFT", "bad") ELSE St("RIGHT", "bad")

\* analyzeTalking as it would be if the card showed the debounced flag.
analyzeTalking_ShowStored(landmarks, ts, t) ==
    IF UPPER_LIP \notin DOMAIN landmarks \/ LOWER_LIP \notin DOMAIN landmarks
    THEN [st |-> St("ERROR", "warning"), ts |-> ts]
    ELSE LET upperLip == landmarks[UPPER_LIP]
             lowerLip == landmarks[LOWER_LIP]
             talking == Abs(upperLip.y * lowerLip.n - lowerLip.y * upperLip.n)
                          > LipThreshold * upperLip.n * lowerLip.n
             stored == IF talking # ts.isTalking /\ t - ts.lastChange > TalkDebounce
                       THEN [isTalking |-> talking, lastChange |-> t]
                       ELSE ts
         IN  [st |-> IF stored.isTalking THEN St("TALKING", "good") ELSE St("SILENT", "warning"),
              ts |-> stored]

\* analyzeTalking(landmarks) at time t with this._talkingState = ts: the status written
\* and the hysteresis state left behind.
analyzeTalking(landmarks, ts, t) ==
    IF UPPER_LIP \notin DOMAIN landmarks \/ LOWER_LIP \notin DOMAIN landmarks
    THEN [st |-> St("ERROR", "warning"), ts |-> ts]
    ELSE LET upperLip == landmarks[UPPER_LIP]
             lowerLip == landmarks[LOWER_LIP]
             talking == Abs(upperLip.y * lowerLip.n - lowerLip.y * upperLip.n)
                          > LipThreshold * upperLip.n * lowerLip.n
         IN  [st |-> IF talking THEN St("TALKING", "good") ELSE St("SILENT", "warning"),
              ts |-> IF talking # ts.isTalking /\ t - ts.lastChange > TalkDebounce
                     THEN [isTalking |-> talking, lastChange |-> t]
                     ELSE ts]

\* The thresholds of analyzeFocus as they would be if 12 already counted as sharp.
classifyFocus_SharpAtTwelve(variance) ==
    IF variance >= 12 THEN St("SHARP", "good")
    ELSE IF variance > 6 THEN St("OK", "warning")
    ELSE St("BLURRY", "bad")

\* The thresholds of analyzeFocus over the value it calls variance.
classifyFocus(variance) ==
    IF variance > 12 THEN St("SHARP", "good")
    ELSE IF variance > 6 THEN St("OK", "warning")
    ELSE St("BLURRY", "bad")

\* analyzeFocus(landmarks): ready is this._cvReady, source the element it samples
\* ([present, w, h]), variance what OpenCV measures there, throws whether the canvas or
\* OpenCV calls throw.
analyzeFocus(landmarks, ready, source, variance, throws) ==
    IF ~ready THEN St("CV N/A", "warning")
    ELSE IF LEFT_EYE \notin DOMAIN landmarks \/ RIGHT_EYE \notin DOMAIN landmarks
            \/ NOSE_TIP \notin DOMAIN landmarks
    THEN St("NO DATA", "warning")
    ELSE IF ~source.present THEN St("NO SOURCE", "warning")
    ELSE IF source.w = 0 \/ source.h = 0 \/ source.w < 40 \/ source.h < 40
    THEN St("WAITING", "warning")
    ELSE IF throws THEN St("CV ERROR", "warning")
    ELSE classifyFocus(variance)

\* The thresholds of analyzeLighting as they would be if 50 still counted as dark.
classifyLighting_DarkAtFifty(avgBrightness) ==
    IF avgBrightness <= 50 THEN St("DARK", "bad")
    ELSE IF avgBrightness < 90 THEN St("DIM", "warning")
    ELSE IF avgBrightness > 220 THEN St("OVEREXPOSED", "bad")
    ELSE IF avgBrightness > 180 THEN St("BRIGHT", "warning")
    ELSE St("GOOD", "good")

\* The thresholds of analyzeLighting over the average brightness.
classifyLighting(avgBrightness) ==
    IF avgBrightness < 50 THEN St("DARK", "bad")
    ELSE IF avgBrightness < 90 THEN St("DIM", "warning")
    ELSE IF avgBrightness > 220 THEN St("OVEREXPOSED", "bad")
    ELSE IF avgBrightness > 180 THEN St("BRIGHT", "warning")
    ELSE St("GOOD", "good")

\* analyzeLighting(): videoWidth is video.videoWidth, canvasWidth is imageCanvas.width,
\* avgBrightness what the pixels average to, throws whether the canvas calls throw.
analyzeLighting(videoWidth, canvasWidth, avgBrightness, throws) ==
    IF ~(videoWidth > 0) /\ ~(canvasWidth > 0) THEN St("N/A", "disabled")
    ELSE IF throws THEN St("ERROR", "warning")
    ELSE classifyLighting(avgBrightness)

RECURSIVE join(_)
\* issues.join(' ')
join(issues) ==
    IF Len(issues) = 0 THEN ""
    ELSE IF Len(issues) = 1 THEN issues[1]
    ELSE issues[1] \o " " \o join(Tail(issues))

\* The issue list as it would be if the position were checked before the size.
compositionIssues_PositionFirst(face) ==
    LET faceWidth == face.x_max - face.x_min
        faceHeight == face.y_max - face.y_min
        centerX2 == face.x_min + face.x_max
        centerY2 == face.y_min + face.y_max
    IN  (IF centerX2 < 600 THEN <<"-> RIGHT">>
         ELSE IF centerX2 > 1400 THEN <<"<- LEFT">> ELSE <<>>)
        \o (IF centerY2 < 500 THEN <<"v DOWN">>
            ELSE IF centerY2 > 1500 THEN <<"^ UP">> ELSE <<>>)
        \o (IF faceWidth > 500 \/ faceHeight > 600 THEN <<"TOO CLOSE">>
            ELSE IF faceWidth < 150 /\ faceHeight < 200 THEN <<"TOO FAR">> ELSE <<>>)

\* The issue list of the composition analysis of one box; the arrows of the position
\* tags are written in ASCII.
compositionIssues(face) ==
    LET faceWidth == face.x_max - face.x_min
        faceHeight == face.y_max - face.y_min
        centerX2 == face.x_min + face.x_max
        centerY2 == face.y_min + face.y_max
    IN  (IF faceWidth > 500 \/ faceHeight > 600 THEN <<"TOO CLOSE">>
         ELSE IF faceWidth < 150 /\ faceHeight < 200 THEN <<"TOO FAR">> ELSE <<>>)
        \o (IF centerX2 < 600 THEN <<"-> RIGHT">>
            ELSE IF centerX2 > 1400 THEN <<"<- LEFT">> ELSE <<>>)
        \o (IF centerY2 < 500 THEN <<"v DOWN">>
            ELSE IF centerY2 > 1500 THEN <<"^ UP">> ELSE <<>>)

\* The status the /detect callback writes for composition from response.objects.
analyzeComposition(objects) ==
    IF Len(objects) = 0 THEN St("NO FACE", "bad")
    ELSE LET issues == compositionIssues(objects[1]) IN
         IF Len(issues) = 0 THEN St("GOOD", "good") ELSE St(join(issues), "bad")

\* The presence status as it would be if an empty response counted as a failure.
analyzePresence_EmptyIsError(objects) ==
    IF Len(objects) > 0 THEN St("PRESENT", "good") ELSE St("ERROR", "warning")

\* The status the /detect callback writes for presence from response.objects.
analyzePresence(objects) ==
    IF Len(objects) > 0 THEN St("PRESENT", "good") ELSE St("ABSENT", "bad")

-----------------------------------------------------------------------------
(* The handlers, as functions of the state they read *)

setStatus(m, key, st) == updateMonitorStatus(m, key, st.status, st.class)

\* resetToAnalyzing as it would be without the test of monitor.enabled.
resetToAnalyzing_All(m) ==
    [k \in DOMAIN m |-> setStatus(m, k, St("Analyzing...", "warning"))[k]]

\* The forEach of startMonitoring: every enabled monitor shows Analyzing...
resetToAnalyzing(m) ==
    [k \in DOMAIN m |->
        IF m[k].enabled THEN setStatus(m, k, St("Analyzing...", "warning"))[k] ELSE m[k]]

\* The monitor map stopMonitoring leaves behind.
monitorsAfterStop(m) == m

\* hasFrameSource as it would be if startMonitoring did not test for a source.
hasFrameSource_Always(s, img) == TRUE

\* The guard of startMonitoring: a webcam stream or an uploaded image.
hasFrameSource(s, img) == s \/ img

\* getCurrentFrame() returns a frame (this._media is set by render).
getCurrentFrame(s, img) == s \/ img

\* throttleOpen as it would be with >= for >.
throttleOpen_Inclusive(t, last) == t - last >= ThrottleWindow

\* throttleOpen as it would be with a window of 4000 ms.
throttleOpen_LongWindow(t, last) == t - last > 2 * ThrottleWindow

\* The test of runMonitoringCycle that guards the batch, at time t.
throttleOpen(t, last) == t - last > ThrottleWindow

\* runMoonDreamAnalysis as it would be with one /detect request for each of presence
\* and composition.
runMoonDreamAnalysis_PerMonitor(m, frame) ==
    IF ~frame THEN <<>>
    ELSE (IF m.presence.enabled THEN <<"ApiClient.detect">> ELSE <<>>)
         \o (IF m.composition.enabled THEN <<"ApiClient.detect">> ELSE <<>>)
         \o (IF m.sceneContext.enabled THEN <<"ApiClient.caption">> ELSE <<>>)

\* The requests runMoonDreamAnalysis issues, in order.
runMoonDreamAnalysis(m, frame) ==
    IF ~frame THEN <<>>
    ELSE (IF m.presence.enabled \/ m.composition.enabled THEN <<"ApiClient.detect">> ELSE <<>>)
         \o (IF m.sceneContext.enabled THEN <<"ApiClient.caption">> ELSE <<>>)

\* cycleCalls as it would be without the test of lighting.enabled.
cycleCalls_LightingAlways(m, live, mesh, s, img, t, last) ==
    IF ~live THEN <<>>
    ELSE (IF mesh /\ s THEN <<"faceMesh.send">> ELSE <<>>)
         \o <<"analyzeLighting">>
         \o (IF t - last > ThrottleWindow
             THEN (IF ~(s \/ img) THEN <<>>
                   ELSE (IF m.presence.enabled \/ m.composition.enabled
                         THEN <<"ApiClient.detect">> ELSE <<>>)
                        \o (IF m.sceneContext.enabled THEN <<"ApiClient.caption">> ELSE <<>>))
             ELSE <<>>)

\* cycleCalls as it would be if the remote batch were sent before the local work.
cycleCalls_BatchFirst(m, live, mesh, s, img, t, last) ==
    IF ~live THEN <<>>
    ELSE (IF throttleOpen(t, last) THEN runMoonDreamAnalysis(m, getCurrentFrame(s, img)) ELSE <<>>)
         \o (IF mesh /\ s THEN <<"faceMesh.send">> ELSE <<>>)
         \o (IF m.lighting.enabled THEN <<"analyzeLighting">> ELSE <<>>)

\* The collaborator calls of one runMonitoringCycle, in order; live is this._isMonitoring,
\* mesh this._faceMesh, s MediaCapture.stream.
cycleCalls(m, live, mesh, s, img, t, last) ==
    IF ~live THEN <<>>
    ELSE (IF mesh /\ s THEN <<"faceMesh.send">> ELSE <<>>)
         \o (IF m.lighting.enabled THEN <<"analyzeLighting">> ELSE <<>>)
         \o (IF throttleOpen(t, last) THEN runMoonDreamAnalysis(m, getCurrentFrame(s, img)) ELSE <<>>)

\* cycleTimestamp as it would be if a cycle inside the window cleared the timestamp.
cycleTimestamp_Cleared(live, t, last) == IF live /\ throttleOpen(t, last) THEN t ELSE 0

\* cycleTimestamp as it would be if the cycle never stored the time of the batch.
cycleTimestamp_Stale(live, t, last) == last

\* this._lastMoonDreamCall after one runMonitoringCycle at time t.
cycleTimestamp(live, t, last) == IF live /\ throttleOpen(t, last) THEN t ELSE last

\* onDetectResponse as it would be without the tests of the enabled flags.
onDetectResponse_WritesDisabled(m, objects) ==
    setStatus(setStatus(m, "presence", analyzePresence(objects)),
              "composition", analyzeComposition(objects))

\* onDetectResponse as it would be if the shared response served presence only.
onDetectResponse_PresenceOnly(m, objects) ==
    IF m.presence.enabled THEN setStatus(m, "presence", analyzePresence(objects)) ELSE m

\* The then-callback as it would be if a card showing ERROR were left alone.
onDetectResponse_StickyError(m, objects) ==
    LET m1 == IF m.presence.enabled /\ m.presence.status # "ERROR"
              THEN setStatus(m, "presence", analyzePresence(objects)) ELSE m
    IN  IF m1.composition.enabled /\ m1.composition.status # "ERROR"
        THEN setStatus(m1, "composition", analyzeComposition(objects))
        ELSE m1

\* The then-callback of ApiClient.detect.
onDetectResponse(m, objects) ==
    LET m1 == IF m.presence.enabled THEN setStatus(m, "presence", analyzePresence(objects)) ELSE m
    IN  IF m1.composition.enabled
        THEN setStatus(m1, "composition", analyzeComposition(objects))
        ELSE m1

\* The catch-callback as it would be if a failed /detect also marked the scene card.
onDetectRejected_AllRemote(m) ==
    LET m1 == IF m.presence.enabled THEN setStatus(m, "presence", St("ERROR", "warning")) ELSE m
        m2 == IF m1.composition.enabled
              THEN setStatus(m1, "composition", St("ERROR", "warning")) ELSE m1
    IN  IF m2.sceneContext.enabled
        THEN setStatus(m2, "sceneContext", St("ERROR", "warning"))
        ELSE m2

\* onDetectRejected as it would be with one flag deciding for both monitors.
onDetectRejected_OneFlag(m) ==
    IF m.presence.enabled
    THEN setStatus(setStatus(m, "presence", St("ERROR", "warning")),
                   "composition", St("ERROR", "warning"))
    ELSE m

\* The catch-callback of ApiClient.detect.
onDetectRejected(m) ==
    LET m1 == IF m.presence.enabled THEN setStatus(m, "presence", St("ERROR", "warning")) ELSE m
    IN  IF m1.composition.enabled
        THEN setStatus(m1, "composition", St("ERROR", "warning"))
        ELSE m1

\* The then-callback of ApiClient.caption: the monitor map, and the scene text.
onCaptionResponse(m) == setStatus(m, "sceneContext", St("UPDATED", "good"))
captionText(caption) == IF caption = "" THEN "No description" ELSE caption

\* onCaptionRejected as it would be with no catch handler on the caption promise.
onCaptionRejected_Silent(m) == m

\* The catch-callback of ApiClient.caption.
onCaptionRejected(m) == setStatus(m, "sceneContext", St("ERROR", "warning"))

\* processFrameResults as it would be if analyzeOrientation threw on missing landmarks:
\* the callback ends there, before the talking and focus analyzers.
processFrameResults_StopAtError(m, history, ts, live, results, t, ready, source, variance, throws) ==
    IF ~live THEN [monitors |-> m, history |-> history, ts |-> ts]
    ELSE IF Len(results) > 0
    THEN LET pushed == pushHistory(history, results[1])
             landmarks == smoothLandmarks(pushed, results[1])
             talk == analyzeTalking(landmarks, ts, t)
             failed == m.orientation.enabled /\ analyzeOrientation(landmarks).status = "ERROR"
             m1 == IF m.orientation.enabled
                   THEN setStatus(m, "orientation", analyzeOrientation(landmarks)) ELSE m
             m2 == IF m1.talking.enabled THEN setStatus(m1, "talking", talk.st) ELSE m1
             m3 == IF m2.focus.enabled /\ ready
                   THEN setStatus(m2, "focus", analyzeFocus(landmarks, ready, source, variance, throws))
                   ELSE m2
         IN  [monitors |-> IF failed THEN m1 ELSE m3, history |-> pushed,
              ts |-> IF m1.talking.enabled /\ ~failed THEN talk.ts ELSE ts]
    ELSE LET m1 == IF m.orientation.enabled
                   THEN setStatus(m, "orientation", St("NO FACE", "bad")) ELSE m
             m2 == IF m1.talking.enabled THEN setStatus(m1, "talking", St("NO FACE", "bad")) ELSE m1
             m3 == IF m2.focus.enabled THEN setStatus(m2, "focus", St("NO FACE", "bad")) ELSE m2
         IN  [monitors |-> m3, history |-> history, ts |-> ts]

\* processFrameResults as it would be without the test of this._isMonitoring.
processFrameResults_WhileIdle(m, history, ts, live, results, t, ready, source, variance, throws) ==
    IF Len(results) > 0
    THEN LET pushed == pushHistory(history, results[1])
             landmarks == smoothLandmarks(pushed, results[1])
             talk == analyzeTalking(landmarks, ts, t)
             m1 == IF m.orientation.enabled
                   THEN setStatus(m, "orientation", analyzeOrientation(landmarks)) ELSE m
             m2 == IF m1.talking.enabled THEN setStatus(m1, "talking", talk.st) ELSE m1
             m3 == IF m2.focus.enabled /\ ready
                   THEN setStatus(m2, "focus", analyzeFocus(landmarks, ready, source, variance, throws))
                   ELSE m2
         IN  [monitors |-> m3, history |-> pushed,
              ts |-> IF m1.talking.enabled THEN talk.ts ELSE ts]
    ELSE LET m1 == IF m.orientation.enabled
                   THEN setStatus(m, "orientation", St("NO FACE", "bad")) ELSE m
             m2 == IF m1.talking.enabled THEN setStatus(m1, "talking", St("NO FACE", "bad")) ELSE m1
             m3 == IF m2.focus.enabled THEN setStatus(m2, "focus", St("NO FACE", "bad")) ELSE m2
         IN  [monitors |-> m3, history |-> history, ts |-> ts]

\* processFrameResults(results) at time t: the monitor map, the landmark history and
\* the talking state it leaves behind.
processFrameResults(m, history, ts, live, results, t, ready, source, variance, throws) ==
    IF ~live THEN [monitors |-> m, history |-> history, ts |-> ts]
    ELSE IF Len(results) > 0
    THEN LET pushed == pushHistory(history, results[1])
             landmarks == smoothLandmarks(pushed, results[1])
             talk == analyzeTalking(landmarks, ts, t)
             m1 == IF m.orientation.enabled
                   THEN setStatus(m, "orientation", analyzeOrientation(landmarks)) ELSE m
             m2 == IF m1.talking.enabled THEN setStatus(m1, "talking", talk.st) ELSE m1
             m3 == IF m2.focus.enabled /\ ready
                   THEN setStatus(m2, "focus", analyzeFocus(landmarks, ready, source, variance, throws))
                   ELSE m2
         IN  [monitors |-> m3, history |-> pushed,
              ts |-> IF m1.talking.enabled THEN talk.ts ELSE ts]
    ELSE LET m1 == IF m.orientation.enabled
                   THEN setStatus(m, "orientation", St("NO FACE", "bad")) ELSE m
             m2 == IF m1.talking.enabled THEN setStatus(m1, "talking", St("NO FACE", "bad")) ELSE m1
             m3 == IF m2.focus.enabled THEN setStatus(m2, "focus", St("NO FACE", "bad")) ELSE m2
         IN  [monitors |-> m3, history |-> history, ts |-> ts]

\* s \ i: the sequence s without its i-th element.
removeAt(s, i) == SubSeq(s, 1, i - 1) \o SubSeq(s, i + 1, Len(s))

\* The number of times call c occurs in the call list cs.
count(cs, c) == Cardinality({i \in 1..Len(cs) : cs[i] = c})

\* n copies of the time t.
RECURSIVE issued(_, _)
issued(n, t) == IF n = 0 THEN <<>> ELSE <<t>> \o issued(n - 1, t)

-----------------------------------------------------------------------------
(* The state machine *)

\* The widget after construction and mount(), whatever the page around it.
InitWidget ==
    /\ monitors = [k \in Keys |-> [enabled |-> TRUE, status |-> "N/A", class |-> "disabled"]]
    /\ isMonitoring = FALSE
    /\ monitorInterval = NoInterval
    /\ landmarkHistory = <<>>
    /\ talkingState = [isTalking |-> FALSE, lastChange |-> StartTime]
    /\ lastMoonDreamCall = 0
    /\ currentImage = FALSE
    /\ imageCanvasWidth = 300
    /\ sceneText = InitialSceneText
    /\ mounted = TRUE
    /\ now = StartTime
    /\ pc = "idle"
    /\ landmarkPending = 0
    /\ detectCalls = <<>>
    /\ detectFlags = <<>>
    /\ captionCalls = <<>>
    /\ calls = <<>>
    /\ batchTimes = <<>>

Init ==
    /\ InitWidget
    /\ faceMesh \in BOOLEAN
    /\ cvReady \in BOOLEAN
    /\ stream \in BOOLEAN
    /\ clicks = MaxClicks

\* video.videoWidth and video.videoHeight: the size of the stream while one plays, else 0.
videoWidth == IF stream THEN VideoSize[1] ELSE 0
videoHeight == IF stream THEN VideoSize[2] ELSE 0

\* this._media.video || this._media.imageCanvas in analyzeFocus: the video element.
focusSource == [present |-> TRUE, w |-> videoWidth, h |-> videoHeight]

\* What the pixels analyzeLighting draws average to: avgBrightness from the video or
\* the uploaded image, 0 from the image canvas nothing was ever drawn on.
drawnBrightness(avgBrightness) == IF stream \/ currentImage THEN avgBrightness ELSE 0

\* One runMonitoringCycle(); prefix holds the calls the handler has made before it,
\* avgBrightness is what analyzeLighting measures and throws whether its canvas calls
\* throw.
runMonitoringCycle(prefix, avgBrightness, throws) ==
    LET cs == cycleCalls(monitors, isMonitoring, faceMesh, stream, currentImage, now,
                         lastMoonDreamCall)
    IN  /\ calls' = prefix \o cs
        /\ landmarkPending' = landmarkPending + count(cs, "faceMesh.send")
        /\ monitors' = IF count(cs, "analyzeLighting") > 0
                       THEN setStatus(monitors, "lighting",
                                analyzeLighting(videoWidth, imageCanvasWidth,
                                                drawnBrightness(avgBrightness), throws))
                       ELSE monitors
        /\ lastMoonDreamCall' = cycleTimestamp(isMonitoring, now, lastMoonDreamCall)
        /\ detectCalls' = detectCalls \o issued(count(cs, "ApiClient.detect"), now)
        /\ detectFlags' = detectFlags \o issued(count(cs, "ApiClient.detect"),
                                                [presence |-> monitors.presence.enabled,
                                                 composition |-> monitors.composition.enabled])
        /\ captionCalls' = captionCalls \o issued(count(cs, "ApiClient.caption"), now)
        /\ batchTimes' = IF count(cs, "ApiClient.detect") + count(cs, "ApiClient.caption") > 0
                         THEN Append(batchTimes, now)
                         ELSE batchTimes

\* One runMonitoringCycle() in which the canvas calls of analyzeLighting succeed.
RunMonitoringCycle(prefix, avgBrightness) == runMonitoringCycle(prefix, avgBrightness, FALSE)

\* A click on a status card.
ToggleMonitor(key) ==
    /\ pc = "idle" /\ mounted /\ clicks > 0
    /\ monitors' = toggleMonitor(monitors, key)
    /\ clicks' = clicks - 1
    /\ calls' = <<>>
    /\ UNCHANGED <<isMonitoring, monitorInterval, landmarkHistory, talkingState,
                   lastMoonDreamCall, faceMesh, cvReady, stream, currentImage,
                   imageCanvasWidth, sceneText, mounted, now, pc, landmarkPending,
                   detectCalls, detectFlags, captionCalls,
                   batchTimes>>

\* toggleMonitoring() while idle, without a frame source: startMonitoring shows an
\* error and returns.
StartRejected ==
    /\ pc = "idle" /\ mounted /\ ~isMonitoring /\ clicks > 0
    /\ clicks' = clicks - 1
    /\ ~hasFrameSource(stream, currentImage)
    /\ calls' = <<"showError">>
    /\ UNCHANGED <<monitors, isMonitoring, monitorInterval, landmarkHistory, talkingState,
                   lastMoonDreamCall, faceMesh, cvReady, stream, currentImage,
                   imageCanvasWidth, sceneText, mounted, now, pc, landmarkPending,
                   detectCalls, detectFlags, captionCalls,
                   batchTimes>>

\* toggleMonitoring() while idle: startMonitoring up to the forEach.
StartMonitoring ==
    /\ pc = "idle" /\ mounted /\ ~isMonitoring /\ clicks > 0
    /\ clicks' = clicks - 1
    /\ hasFrameSource(stream, currentImage)
    /\ isMonitoring' = TRUE
    /\ monitors' = resetToAnalyzing(monitors)
    /\ pc' = "start_cycle"
    /\ calls' = <<>>
    /\ UNCHANGED <<monitorInterval, landmarkHistory, talkingState, lastMoonDreamCall,
                   faceMesh, cvReady, stream, currentImage, imageCanvasWidth, sceneText,
                   mounted, now, landmarkPending, detectCalls, detectFlags, captionCalls,
                   batchTimes>>

\* startMonitoring: the immediate this.runMonitoringCycle().
startCycle(lums) ==
    /\ pc = "start_cycle"
    /\ \E avgBrightness \in lums : RunMonitoringCycle(calls, avgBrightness)
    /\ pc' = "start_arm"
    /\ UNCHANGED <<isMonitoring, monitorInterval, landmarkHistory, talkingState, faceMesh,
                   cvReady, stream, currentImage, imageCanvasWidth, sceneText, mounted,
                   now, clicks>>

\* The first cycle under the frames of the main specification.
StartCycle == startCycle(LumInputs)

\* startMonitoring: setInterval(..., 1500).
StartArm ==
    /\ pc = "start_arm"
    /\ monitorInterval' = [armed |-> TRUE, due |-> now + CyclePeriod]
    /\ calls' = Append(calls, "setInterval")
    /\ pc' = "idle"
    /\ UNCHANGED <<monitors, isMonitoring, landmarkHistory, talkingState, lastMoonDreamCall,
                   faceMesh, cvReady, stream, currentImage, imageCanvasWidth, sceneText,
                   mounted, now, landmarkPending, detectCalls, detectFlags, captionCalls, clicks,
                   batchTimes>>

\* stopMonitoring as it would be without the clearInterval.
stopMonitoring_KeepTimer ==
    /\ isMonitoring' = FALSE
    /\ monitors' = monitors
    /\ monitorInterval' = monitorInterval
    /\ calls' = <<>>

\* The body of stopMonitoring().
stopMonitoring ==
    /\ isMonitoring' = FALSE
    /\ monitors' = monitorsAfterStop(monitors)
    /\ monitorInterval' = NoInterval
    /\ calls' = IF monitorInterval.armed THEN <<"clearInterval">> ELSE <<>>

\* toggleMonitoring() while monitoring.
StopMonitoring ==
    /\ pc = "idle" /\ mounted /\ isMonitoring /\ clicks > 0
    /\ clicks' = clicks - 1
    /\ stopMonitoring
    /\ UNCHANGED <<landmarkHistory, talkingState, lastMoonDreamCall, faceMesh, cvReady,
                   stream, currentImage, imageCanvasWidth, sceneText, mounted, now, pc,
                   landmarkPending, detectCalls, detectFlags, captionCalls,
                   batchTimes>>

\* unmount(): stopMonitoring(), then WidgetBase.unmount stops the webcam and empties
\* the root element.
Unmount ==
    /\ pc = "idle" /\ mounted /\ clicks > 0
    /\ clicks' = clicks - 1
    /\ stopMonitoring
    /\ stream' = FALSE
    /\ mounted' = FALSE
    /\ UNCHANGED <<landmarkHistory, talkingState, lastMoonDreamCall, faceMesh, cvReady,
                   currentImage, imageCanvasWidth, sceneText, now, pc, landmarkPending,
                   detectCalls, detectFlags, captionCalls,
                   batchTimes>>

\* The timer callback as it would be if a cycle waited for the remote calls in flight.
timerFire_Blocking(lums) ==
    /\ pc = "idle"
    /\ monitorInterval.armed /\ now >= monitorInterval.due
    /\ detectCalls = <<>> /\ captionCalls = <<>>
    /\ \E avgBrightness \in lums : RunMonitoringCycle(<<>>, avgBrightness)
    /\ monitorInterval' = [armed |-> TRUE, due |-> now + CyclePeriod]
    /\ UNCHANGED <<isMonitoring, landmarkHistory, talkingState, faceMesh, cvReady, stream,
                   currentImage, imageCanvasWidth, sceneText, mounted, now, pc, clicks>>

\* The interval timer fires: runMonitoringCycle(), and the timer is due again a
\* period later.
timerFire(lums) ==
    /\ pc = "idle"
    /\ monitorInterval.armed /\ now >= monitorInterval.due
    /\ \E avgBrightness \in lums : RunMonitoringCycle(<<>>, avgBrightness)
    /\ monitorInterval' = [armed |-> TRUE, due |-> now + CyclePeriod]
    /\ UNCHANGED <<isMonitoring, landmarkHistory, talkingState, faceMesh, cvReady, stream,
                   currentImage, imageCanvasWidth, sceneText, mounted, now, pc, clicks>>

\* A timer cycle under the frames of the main specification.
TimerFire == timerFire(LumInputs)

\* FaceMesh delivers the results of a pass to the onResults callback; throws tells
\* whether the canvas or OpenCV calls of analyzeFocus throw.
onResults(results, variance, throws) ==
    /\ pc = "idle"
    /\ landmarkPending > 0
    /\ landmarkPending' = landmarkPending - 1
    /\ LET r == processFrameResults(monitors, landmarkHistory, talkingState, isMonitoring,
                                    results, now, cvReady, focusSource, variance, throws)
       IN  /\ monitors' = r.monitors
           /\ landmarkHistory' = r.history
           /\ talkingState' = r.ts
    /\ calls' = <<>>
    /\ UNCHANGED <<isMonitoring, monitorInterval, lastMoonDreamCall, faceMesh, cvReady,
                   stream, currentImage, imageCanvasWidth, sceneText, mounted, now, pc,
                   detectCalls, detectFlags, captionCalls, clicks,
                   batchTimes>>

\* The onResults callback when the calls of analyzeFocus succeed.
LandmarkCallback(results, variance) == onResults(results, variance, FALSE)

\* The i-th /detect call in flight ends: its promise resolves or is rejected.
DetectSettled(i, outcome) ==
    /\ pc = "idle"
    /\ i \in 1..Len(detectCalls)
    /\ detectCalls' = removeAt(detectCalls, i)
    /\ monitors' = IF outcome.ok
                   THEN onDetectResponse(monitors, outcome.objects)
                   ELSE onDetectRejected(monitors)
    /\ calls' = <<>>
    /\ UNCHANGED <<isMonitoring, monitorInterval, landmarkHistory, talkingState,
                   lastMoonDreamCall, faceMesh, cvReady, stream, currentImage,
                   imageCanvasWidth, sceneText, mounted, now, pc, landmarkPending,
                   captionCalls, detectFlags, clicks,
                   batchTimes>>

\* The i-th /caption call in flight ends.
CaptionSettled(i, outcome) ==
    /\ pc = "idle"
    /\ i \in 1..Len(captionCalls)
    /\ captionCalls' = removeAt(captionCalls, i)
    /\ monitors' = IF outcome.ok THEN onCaptionResponse(monitors) ELSE onCaptionRejected(monitors)
    /\ sceneText' = IF outcome.ok THEN captionText(outcome.caption) ELSE sceneText
    /\ calls' = <<>>
    /\ UNCHANGED <<isMonitoring, monitorInterval, landmarkHistory, talkingState,
                   lastMoonDreamCall, faceMesh, cvReady, stream, currentImage,
                   imageCanvasWidth, mounted, now, pc, landmarkPending, detectCalls, detectFlags,
                   clicks,
                   batchTimes>>

\* The webcam button: the stream starts, or stops.
WebcamClick ==
    /\ pc = "idle" /\ mounted /\ clicks > 0
    /\ clicks' = clicks - 1
    /\ stream' = ~stream
    /\ calls' = <<>>
    /\ UNCHANGED <<monitors, isMonitoring, monitorInterval, landmarkHistory, talkingState,
                   lastMoonDreamCall, faceMesh, cvReady, currentImage, imageCanvasWidth,
                   sceneText, mounted, now, pc, landmarkPending, detectCalls, detectFlags, captionCalls,
                   batchTimes>>

\* An image is uploaded and drawn at width w; a running webcam is stopped.
ImageUploaded(w) ==
    /\ pc = "idle" /\ mounted /\ clicks > 0
    /\ clicks' = clicks - 1
    /\ currentImage' = TRUE
    /\ imageCanvasWidth' = w
    /\ stream' = FALSE
    /\ calls' = <<>>
    /\ UNCHANGED <<monitors, isMonitoring, monitorInterval, landmarkHistory, talkingState,
                   lastMoonDreamCall, faceMesh, cvReady, sceneText, mounted, now, pc,
                   landmarkPending, detectCalls, detectFlags, captionCalls,
                   batchTimes>>

\* The MediaPipe script has loaded: setupFaceMesh().
FaceMeshLoaded ==
    /\ pc = "idle" /\ ~faceMesh
    /\ faceMesh' = TRUE
    /\ calls' = <<>>
    /\ UNCHANGED <<monitors, isMonitoring, monitorInterval, landmarkHistory, talkingState,
                   lastMoonDreamCall, cvReady, stream, currentImage, imageCanvasWidth,
                   sceneText, mounted, now, pc, landmarkPending, detectCalls, detectFlags, captionCalls,
                   clicks,
                   batchTimes>>

\* OpenCV has initialised: onRuntimeInitialized.
CvLoaded ==
    /\ pc = "idle" /\ ~cvReady
    /\ cvReady' = TRUE
    /\ calls' = <<>>
    /\ UNCHANGED <<monitors, isMonitoring, monitorInterval, landmarkHistory, talkingState,
                   lastMoonDreamCall, faceMesh, stream, currentImage, imageCanvasWidth,
                   sceneText, mounted, now, pc, landmarkPending, detectCalls, detectFlags, captionCalls,
                   clicks,
                   batchTimes>>

\* Time passes; a timer that is due fires before the clock moves on.
Tick ==
    /\ pc = "idle"
    /\ ~(monitorInterval.armed /\ now >= monitorInterval.due)
    /\ now + TimeStep <= EndTime
    /\ now' = now + TimeStep
    /\ calls' = <<>>
    /\ UNCHANGED <<monitors, isMonitoring, monitorInterval, landmarkHistory, talkingState,
                   lastMoonDreamCall, faceMesh, cvReady, stream, currentImage,
                   imageCanvasWidth, sceneText, mounted, pc, landmarkPending, detectCalls, detectFlags,
                   captionCalls, clicks,
                   batchTimes>>

Next ==
    \/ \E key \in Keys : ToggleMonitor(key)
    \/ StartRejected
    \/ StartMonitoring
    \/ StartCycle
    \/ StartArm
    \/ StopMonitoring
    \/ Unmount
    \/ TimerFire
    \/ \E results \in LandmarkResults, variance \in VarianceInputs : LandmarkCallback(results, variance)
    \/ \E i \in 1..Len(detectCalls), ev \in XhrEvents, objects \in DetectBodies :
           DetectSettled(i, ApiClient_detect(ev, objects))
    \/ \E i \in 1..Len(captionCalls), ev \in XhrEvents, text \in CaptionBodies :
           CaptionSettled(i, ApiClient_caption(ev, text))
    \/ WebcamClick
    \/ \E w \in UploadWidths : ImageUploaded(w)
    \/ FaceMeshLoaded
    \/ CvLoaded
    \/ Tick

Spec == Init /\ [][Next]_vars

\* The widget on a page where the webcam is running and the MediaPipe and OpenCV
\* scripts never load: the user toggles monitors and starts and stops monitoring, and
\* has one more action than in Spec.
InitWebcamOnly ==
    /\ InitWidget
    /\ faceMesh = FALSE
    /\ cvReady = FALSE
    /\ stream = TRUE
    /\ clicks = MaxClicks + 1

NextWebcamOnly ==
    \/ \E key \in Keys : ToggleMonitor(key)
    \/ StartMonitoring
    \/ StartCycle
    \/ StartArm
    \/ StopMonitoring
    \/ TimerFire
    \/ \E i \in 1..Len(detectCalls), ev \in XhrEvents, objects \in DetectBodies :
           DetectSettled(i, ApiClient_detect(ev, objects))
    \/ \E i \in 1..Len(captionCalls), ev \in XhrEvents, text \in CaptionBodies :
           CaptionSettled(i, ApiClient_caption(ev, text))
    \/ Tick

SpecWebcamOnly == InitWebcamOnly /\ [][NextWebcamOnly]_vars

\* startMonitoring: the immediate this.runMonitoringCycle(), in which the canvas calls
\* of analyzeLighting may throw.
StartCycleFaulty ==
    /\ pc = "start_cycle"
    /\ \E avgBrightness \in LumInputs, throws \in BOOLEAN :
           runMonitoringCycle(calls, avgBrightness, throws)
    /\ pc' = "start_arm"
    /\ UNCHANGED <<isMonitoring, monitorInterval, landmarkHistory, talkingState, faceMesh,
                   cvReady, stream, currentImage, imageCanvasWidth, sceneText, mounted,
                   now, clicks>>

\* The first cycle of a session and its callbacks, with analyzers that fail: frames
\* that lack landmarks, canvas and OpenCV calls that throw, remote calls that are
\* rejected, a webcam that is stopped before the landmarks arrive.  FaceMesh is set
\* up and the webcam is running when the widget is mounted.
InitFaults ==
    /\ InitWidget
    /\ faceMesh = TRUE
    /\ cvReady \in BOOLEAN
    /\ stream = TRUE
    /\ clicks = MaxClicks

NextFaults ==
    \/ \E key \in Keys : ToggleMonitor(key)
    \/ StartMonitoring
    \/ StartCycleFaulty
    \/ StartArm
    \/ WebcamClick
    \/ \E results \in FaultResults, variance \in VarianceInputs, throws \in BOOLEAN :
           onResults(results, variance, throws)
    \/ \E i \in 1..Len(detectCalls), ev \in XhrEvents, objects \in DetectBodies :
           DetectSettled(i, ApiClient_detect(ev, objects))
    \/ \E i \in 1..Len(captionCalls), ev \in XhrEvents, text \in CaptionBodies :
           CaptionSettled(i, ApiClient_caption(ev, text))

SpecFaults == InitFaults /\ [][NextFaults]_vars

\* Time passes in SpecCycles; a timer that is due fires before the clock moves on.
tickCycle(endTime) ==
    /\ pc = "idle"
    /\ ~(monitorInterval.armed /\ now >= monitorInterval.due)
    /\ now + CycleStep <= endTime
    /\ now' = now + CycleStep
    /\ calls' = <<>>
    /\ UNCHANGED <<monitors, isMonitoring, monitorInterval, landmarkHistory, talkingState,
                   lastMoonDreamCall, faceMesh, cvReady, stream, currentImage,
                   imageCanvasWidth, sceneText, mounted, pc, landmarkPending, detectCalls, detectFlags,
                   captionCalls, clicks,
                   batchTimes>>

\* Time passes in SpecCycles.
TickCycle == tickCycle(CyclesEndTime)

\* One monitoring session over several timer periods, the timer firing on time: the
\* webcam is running, the MediaPipe and OpenCV scripts never load, and the only user
\* action is the start.
InitCycles ==
    /\ InitWidget
    /\ faceMesh = FALSE
    /\ cvReady = FALSE
    /\ stream = TRUE
    /\ clicks = 1

NextCycles ==
    \/ StartMonitoring
    \/ StartCycle
    \/ StartArm
    \/ TimerFire
    \/ \E i \in 1..Len(detectCalls), ev \in XhrEvents, objects \in DetectBodies :
           DetectSettled(i, ApiClient_detect(ev, objects))
    \/ \E i \in 1..Len(captionCalls), ev \in XhrEvents, text \in CaptionBodies :
           CaptionSettled(i, ApiClient_caption(ev, text))
    \/ TickCycle

SpecCycles == InitCycles /\ [][NextCycles]_vars

\* SpecCycles when nothing is held back for ever: setInterval keeps firing the timer,
\* the clock moves on, and every XMLHttpRequest ends.
FairCycles ==
    /\ WF_vars(StartCycle)
    /\ WF_vars(StartArm)
    /\ WF_vars(TimerFire)
    /\ WF_vars(TickCycle)
    /\ WF_vars(\E i \in 1..Len(detectCalls), ev \in XhrEvents, objects \in DetectBodies :
                   DetectSettled(i, ApiClient_detect(ev, objects)))
    /\ WF_vars(\E i \in 1..Len(captionCalls), ev \in XhrEvents, text \in CaptionBodies :
                   CaptionSettled(i, ApiClient_caption(ev, text)))

SpecCyclesFair == SpecCycles /\ FairCycles

\* A session in front of a good picture: the webcam is running, FaceMesh and OpenCV are
\* ready, every FaceMesh pass finds the face of FrameStraight, every /detect call is
\* answered with BoxCentered and every /caption call with a caption; the only user
\* action is the start.
InitGoodPicture ==
    /\ InitWidget
    /\ faceMesh = TRUE
    /\ cvReady = TRUE
    /\ stream = TRUE
    /\ clicks = 1

NextGoodPicture ==
    \/ StartMonitoring
    \/ StartCycle
    \/ StartArm
    \/ TimerFire
    \/ \E variance \in VarianceInputs : LandmarkCallback(<<FrameStraight>>, variance)
    \/ \E i \in 1..Len(detectCalls) :
           DetectSettled(i, ApiClient_detect(XhrOk, <<BoxCentered>>))
    \/ \E i \in 1..Len(captionCalls), text \in CaptionBodies :
           CaptionSettled(i, ApiClient_caption(XhrOk, text))
    \/ Tick

SpecGoodPicture == InitGoodPicture /\ [][NextGoodPicture]_vars

\* analyzeTalking(landmarks) on its own: the landmarks of one frame with the lips gap
\* apart, at the present time.
AnalyzeTalking(gap) ==
    /\ LET landmarks == smoothLandmarks(<<LipFrame(gap)>>, LipFrame(gap))
           r == analyzeTalking(landmarks, talkingState, now)
       IN  /\ talkingState' = r.ts
           /\ monitors' = setStatus(monitors, "talking", r.st)
    /\ calls' = <<>>
    /\ UNCHANGED <<isMonitoring, monitorInterval, landmarkHistory, lastMoonDreamCall,
                   faceMesh, cvReady, stream, currentImage, imageCanvasWidth, sceneText,
                   mounted, now, pc, landmarkPending, detectCalls, detectFlags, captionCalls, clicks,
                   batchTimes>>

\* Time passes in SpecTalking.
TickTalk ==
    /\ now + TalkStep <= StartTime + MaxTalkTicks * TalkStep
    /\ now' = now + TalkStep
    /\ calls' = <<>>
    /\ UNCHANGED <<monitors, isMonitoring, monitorInterval, landmarkHistory, talkingState,
                   lastMoonDreamCall, faceMesh, cvReady, stream, currentImage,
                   imageCanvasWidth, sceneText, mounted, pc, landmarkPending, detectCalls, detectFlags,
                   captionCalls, clicks,
                   batchTimes>>

\* analyzeTalking called again and again as time passes, from the talking state the
\* constructor leaves.
InitTalking ==
    /\ InitWidget
    /\ faceMesh = TRUE
    /\ cvReady = TRUE
    /\ stream = TRUE
    /\ clicks = 0

NextTalking ==
    \/ \E gap \in LipGaps : AnalyzeTalking(gap)
    \/ TickTalk

SpecTalking == InitTalking /\ [][NextTalking]_vars

\* smoothLandmarks(newLandmarks) on its own: the push, the shift and the averaging;
\* the smoothed array is handed to the caller and kept nowhere.
SmoothLandmarks(newLandmarks) ==
    /\ landmarkHistory' = pushHistory(landmarkHistory, newLandmarks)
    /\ calls' = <<>>
    /\ UNCHANGED <<monitors, isMonitoring, monitorInterval, talkingState,
                   lastMoonDreamCall, faceMesh, cvReady, stream, currentImage,
                   imageCanvasWidth, sceneText, mounted, now, pc, landmarkPending,
                   detectCalls, detectFlags, captionCalls, clicks, batchTimes>>

\* Frames arriving one after another at a smoother whose history starts empty.
InitSmoother ==
    /\ InitWidget
    /\ faceMesh = TRUE
    /\ cvReady = TRUE
    /\ stream = TRUE
    /\ clicks = 0

NextSmoother == \E f \in SmootherFrames : SmoothLandmarks(f)

SpecSmoother == InitSmoother /\ [][NextSmoother]_vars

\* The orientation part of processFrameResults on its own: the frame is smoothed into
\* the history and analyzeOrientation reads the smoothed landmarks.
AnalyzeOrientation(x) ==
    /\ LET history == pushHistory(landmarkHistory, NoseFrame(x))
           landmarks == smoothLandmarks(history, NoseFrame(x))
       IN  /\ landmarkHistory' = history
           /\ monitors' = setStatus(monitors, "orientation", analyzeOrientation(landmarks))
    /\ calls' = <<>>
    /\ UNCHANGED <<isMonitoring, monitorInterval, talkingState, lastMoonDreamCall,
                   faceMesh, cvReady, stream, currentImage, imageCanvasWidth, sceneText,
                   mounted, now, pc, landmarkPending, detectCalls, detectFlags, captionCalls, clicks,
                   batchTimes>>

\* Faces arriving one after another, the nose anywhere in NoseXs.
InitOrientation ==
    /\ InitWidget
    /\ faceMesh = TRUE
    /\ cvReady = TRUE
    /\ stream = TRUE
    /\ clicks = 0

NextOrientation == \E x \in NoseXs : AnalyzeOrientation(x)

SpecOrientation == InitOrientation /\ [][NextOrientation]_vars

\* One monitoring session over a few timer periods in which the picture may have
\* any brightness at each cycle: the webcam is running, the MediaPipe and OpenCV
\* scripts never load, the server does not answer during the session, and the only
\* user action is the start.
InitLighting ==
    /\ InitWidget
    /\ faceMesh = FALSE
    /\ cvReady = FALSE
    /\ stream = TRUE
    /\ clicks = 1

NextLighting ==
    \/ StartMonitoring
    \/ startCycle(Luminances)
    \/ StartArm
    \/ timerFire(Luminances)
    \/ tickCycle(LightingEndTime)

SpecLighting == InitLighting /\ [][NextLighting]_vars

\* One monitoring session over a few timer periods in which the sampled patch may
\* have any sharpness at each FaceMesh pass: the webcam is running, FaceMesh and
\* OpenCV are ready, every pass finds the same face, the server does not answer
\* during the session, and the only user action is the start.
InitFocus ==
    /\ InitWidget
    /\ faceMesh = TRUE
    /\ cvReady = TRUE
    /\ stream = TRUE
    /\ clicks = 1

NextFocus ==
    \/ StartMonitoring
    \/ StartCycle
    \/ StartArm
    \/ TimerFire
    \/ \E variance \in FocusValues : LandmarkCallback(<<FrameStraight>>, variance)
    \/ tickCycle(LightingEndTime)

SpecFocus == InitFocus /\ [][NextFocus]_vars

\* One monitoring session over a few timer periods in which /detect answers with a
\* face anywhere in the picture: the webcam is running, the MediaPipe and OpenCV
\* scripts never load, /caption does not answer during the session, and the only
\* user action is the start.
InitComposition ==
    /\ InitWidget
    /\ faceMesh = FALSE
    /\ cvReady = FALSE
    /\ stream = TRUE
    /\ clicks = 1

NextComposition ==
    \/ StartMonitoring
    \/ StartCycle
    \/ StartArm
    \/ TimerFire
    \/ \E i \in 1..Len(detectCalls), objects \in CompositionBodies :
           DetectSettled(i, DetectResponse(objects))
    \/ tickCycle(LightingEndTime)

SpecComposition == InitComposition /\ [][NextComposition]_vars

\* toggleMonitor(key) called with any key, a monitor's or not.
ToggleAny(key) ==
    /\ clicks > 0
    /\ clicks' = clicks - 1
    /\ monitors' = toggleMonitor(monitors, key)
    /\ calls' = <<>>
    /\ UNCHANGED <<isMonitoring, monitorInterval, landmarkHistory, talkingState,
                   lastMoonDreamCall, faceMesh, cvReady, stream, currentImage,
                   imageCanvasWidth, sceneText, mounted, now, pc, landmarkPending,
                   detectCalls, detectFlags, captionCalls, batchTimes>>

\* updateMonitorStatus(key, 'GOOD', 'good') called with any key.
UpdateAny(key) ==
    /\ clicks > 0
    /\ clicks' = clicks - 1
    /\ monitors' = updateMonitorStatus(monitors, key, "GOOD", "good")
    /\ calls' = <<>>
    /\ UNCHANGED <<isMonitoring, monitorInterval, landmarkHistory, talkingState,
                   lastMoonDreamCall, faceMesh, cvReady, stream, currentImage,
                   imageCanvasWidth, sceneText, mounted, now, pc, landmarkPending,
                   detectCalls, detectFlags, captionCalls, batchTimes>>

\* A few calls of toggleMonitor and updateMonitorStatus on the widget as constructed.
InitKeys ==
    /\ InitWidget
    /\ faceMesh = TRUE
    /\ cvReady = TRUE
    /\ stream = TRUE
    /\ clicks = MaxClicks + 1

NextKeys ==
    \/ \E key \in Keys \cup OtherKeys : ToggleAny(key)
    \/ \E key \in Keys \cup OtherKeys : UpdateAny(key)

SpecKeys == InitKeys /\ [][NextKeys]_vars

\* The clock of SpecLive starts over, between two handlers and with no callback
\* pending; the histories start over with it.
SlideClock ==
    /\ pc = "idle"
    /\ now + CycleStep > LiveEndTime
    /\ ~(monitorInterval.armed /\ now >= monitorInterval.due)
    /\ landmarkPending = 0 /\ detectCalls = <<>> /\ captionCalls = <<>>
    /\ LET back(t) == IF now - t >= SlideCap THEN now - LiveSpan - SlideCap ELSE t - LiveSpan
       IN  /\ now' = now - LiveSpan
           /\ lastMoonDreamCall' = back(lastMoonDreamCall)
           /\ talkingState' = [talkingState EXCEPT !.lastChange = back(@)]
           /\ monitorInterval' = IF monitorInterval.armed
                                 THEN [monitorInterval EXCEPT !.due = @ - LiveSpan]
                                 ELSE monitorInterval
    /\ batchTimes' = <<>>
    /\ detectFlags' = <<>>
    /\ calls' = <<>>
    /\ UNCHANGED <<monitors, isMonitoring, landmarkHistory, faceMesh, cvReady, stream,
                   currentImage, imageCanvasWidth, sceneText, mounted, pc, landmarkPending,
                   detectCalls, captionCalls, clicks>>

\* One monitoring session with the webcam running and FaceMesh set up, OpenCV loaded
\* or not, in which nothing is held back for ever: the clock runs on, setInterval keeps
\* firing the timer, FaceMesh delivers the results of every pass, and every
\* XMLHttpRequest ends (onload, onerror, or ontimeout after 30 s).  The only user action
\* is the start.
InitLive ==
    /\ InitWidget
    /\ faceMesh = TRUE
    /\ cvReady \in BOOLEAN
    /\ stream = TRUE
    /\ clicks = 1

NextLive ==
    \/ StartMonitoring
    \/ StartCycle
    \/ StartArm
    \/ TimerFire
    \/ \E results \in LandmarkResults, variance \in VarianceInputs :
           LandmarkCallback(results, variance)
    \/ \E i \in 1..Len(detectCalls), ev \in XhrEvents, objects \in DetectBodies :
           DetectSettled(i, ApiClient_detect(ev, objects))
    \/ \E i \in 1..Len(captionCalls), ev \in XhrEvents, text \in CaptionBodies :
           CaptionSettled(i, ApiClient_caption(ev, text))
    \/ tickCycle(LiveEndTime)
    \/ SlideClock

FairLive ==
    /\ WF_vars(StartCycle)
    /\ WF_vars(StartArm)
    /\ WF_vars(TimerFire)
    /\ WF_vars(tickCycle(LiveEndTime))
    /\ WF_vars(SlideClock)
    /\ WF_vars(\E results \in LandmarkResults, variance \in VarianceInputs :
                   LandmarkCallback(results, variance))
    /\ WF_vars(\E i \in 1..Len(detectCalls), ev \in XhrEvents, objects \in DetectBodies :
                   DetectSettled(i, ApiClient_detect(ev, objects)))
    /\ WF_vars(\E i \in 1..Len(captionCalls), ev \in XhrEvents, text \in CaptionBodies :
                   CaptionSettled(i, ApiClient_caption(ev, text)))

SpecLive == InitLive /\ [][NextLive]_vars /\ FairLive

\* Sessions started and stopped on a page where the webcam is running and FaceMesh and
\* OpenCV are set up: every cycle sends a FaceMesh pass, and its results may arrive
\* after the session has been stopped.
InitStopped ==
    /\ InitWidget
    /\ faceMesh = TRUE
    /\ cvReady = TRUE
    /\ stream = TRUE
    /\ clicks = MaxClicks + 1

NextStopped ==
    \/ StartMonitoring
    \/ StartCycle
    \/ StartArm
    \/ StopMonitoring
    \/ TimerFire
    \/ \E results \in LandmarkResults, variance \in VarianceInputs :
           LandmarkCallback(results, variance)
    \/ \E i \in 1..Len(detectCalls), ev \in XhrEvents, objects \in DetectBodies :
           DetectSettled(i, ApiClient_detect(ev, objects))
    \/ \E i \in 1..Len(captionCalls), ev \in XhrEvents, text \in CaptionBodies :
           CaptionSettled(i, ApiClient_caption(ev, text))
    \/ Tick

SpecStopped == InitStopped /\ [][NextStopped]_vars

-----------------------------------------------------------------------------
(* Properties *)

\* A step on which a handler puts a /detect or /caption call in flight.
BatchIssued == Len(detectCalls') > Len(detectCalls) \/ Len(captionCalls') > Len(captionCalls)

\* A step on which the callback of a call or of a landmark pass in flight runs.
CallbackRuns ==
    \/ Len(detectCalls') < Len(detectCalls)
    \/ Len(captionCalls') < Len(captionCalls)
    \/ landmarkPending' < landmarkPending

\* C1: a cycle issues a remote batch only when strictly more than 2000 ms have passed
\* since this._lastMoonDreamCall, and it sets that timestamp to the present time in the
\* step that issues the batch; the callback of a call leaves the timestamp alone; so a
\* batch is issued more than 2000 ms after every earlier batch of the run.
C1_ThrottleAtIssue ==
    [][ /\ BatchIssued =>
            /\ now - lastMoonDreamCall > ThrottleWindow
            /\ lastMoonDreamCall' = now
            /\ \A i \in 1..Len(batchTimes) : now - batchTimes[i] > ThrottleWindow
        /\ CallbackRuns => lastMoonDreamCall' = lastMoonDreamCall ]_vars

\* Two batches have been issued in one run, the second by a timer cycle.
C1_TwoBatches == Len(batchTimes) >= 2

\* C2 (as the specification states it): a monitor that is toggled off shows
\* OFF/disabled from that step on, whatever callback runs, for as long as it is disabled.
C2_DisabledShowsOff ==
    \A k \in Keys : ~monitors[k].enabled => monitors[k].status = "OFF" /\ monitors[k].class = "disabled"

\* C3 (as the specification states it): while monitoring is stopped, the callback of a
\* landmark pass, of a /detect call or of a /caption call changes no monitor and not
\* the scene text.
C3_LateResultsDiscarded ==
    [][ (~isMonitoring /\ CallbackRuns) => (monitors' = monitors /\ sceneText' = sceneText) ]_vars

\* C4: the analyzer of a disabled monitor does not run: a cycle calls analyzeLighting
\* only with lighting enabled, ApiClient.detect only with presence or composition
\* enabled, ApiClient.caption only with sceneContext enabled, and a landmark callback
\* leaves the card of a disabled orientation, talking or focus monitor as it was, and
\* the talking state as it was when talking is disabled.
C4_DisabledAnalyzersIdle ==
    [][ /\ count(calls', "analyzeLighting") > 0 => monitors.lighting.enabled
        /\ count(calls', "ApiClient.detect") > 0 =>
               (monitors.presence.enabled \/ monitors.composition.enabled)
        /\ count(calls', "ApiClient.caption") > 0 => monitors.sceneContext.enabled
        /\ ~monitors.lighting.enabled =>
               /\ monitors'.lighting.status = monitors.lighting.status
               /\ monitors'.lighting.class = monitors.lighting.class
        /\ landmarkPending' < landmarkPending =>
               /\ \A k \in {"orientation", "talking", "focus"} :
                      ~monitors[k].enabled => monitors'[k] = monitors[k]
               /\ ~monitors.talking.enabled => talkingState' = talkingState ]_vars

\* The cycle of startMonitoring has run with lighting disabled and has made other calls.
C4_CycleWithLightingOff ==
    isMonitoring /\ ~monitors.lighting.enabled /\ pc = "start_arm" /\ Len(calls) > 0

\* C5 (as the specification states it): in the state right after stopMonitoring()
\* every monitor shows N/A/disabled.
C5_StopResetsStatuses ==
    [][ (isMonitoring /\ ~isMonitoring') =>
            \A k \in Keys : monitors'[k].status = "N/A" /\ monitors'[k].class = "disabled" ]_vars

\* C6: startMonitoring first shows Analyzing.../warning on every enabled monitor and
\* leaves the disabled ones as they are, with no cycle run and no timer armed yet; then
\* runs one cycle, still inside the handler, with no timer armed and the disabled
\* monitors still as they are; then arms the timer, due 1500 ms later.
C6_StartOrder ==
    [][ /\ (~isMonitoring /\ isMonitoring') =>
            /\ \A k \in Keys :
                   monitors'[k] = IF monitors[k].enabled
                                  THEN [enabled |-> TRUE, status |-> "Analyzing...", class |-> "warning"]
                                  ELSE monitors[k]
            /\ calls' = <<>>
            /\ ~monitorInterval'.armed
            /\ pc' = "start_cycle"
        /\ pc = "start_cycle" =>
            /\ calls' = cycleCalls(monitors, TRUE, faceMesh, stream, currentImage, now,
                                   lastMoonDreamCall)
            /\ \A k \in Keys : ~monitors[k].enabled => monitors'[k] = monitors[k]
            /\ monitors.lighting.enabled => monitors'.lighting.status # "Analyzing..."
            /\ ~monitorInterval'.armed
            /\ pc' = "start_arm"
        /\ pc = "start_arm" =>
            /\ monitorInterval' = [armed |-> TRUE, due |-> now + CyclePeriod]
            /\ calls' = Append(calls, "setInterval")
            /\ monitors' = monitors
            /\ pc' = "idle" ]_vars

\* startMonitoring has returned: with a monitor disabled, it made the calls of a cycle
\* and then armed the timer.
C6_StartedWithOneOff ==
    /\ isMonitoring /\ pc = "idle"
    /\ Len(calls) > 1 /\ calls[Len(calls)] = "setInterval"
    /\ \E k \in Keys : ~monitors[k].enabled

\* C7: while monitoring is stopped no timer is armed, and no step starts cycle work: no
\* analyzeLighting, no FaceMesh pass, no remote call, no change of the throttle
\* timestamp; stopMonitoring leaves the calls in flight in flight, and each of them can
\* still end.
C7_NoCycleAfterStop ==
    [][ /\ ~isMonitoring' => ~monitorInterval'.armed
        /\ (~isMonitoring /\ pc = "idle" /\ Len(detectCalls) > 0) =>
               ENABLED DetectSettled(1, DetectRejected)
        /\ (~isMonitoring /\ pc = "idle" /\ Len(captionCalls) > 0) =>
               ENABLED CaptionSettled(1, CaptionRejected)
        /\ (isMonitoring /\ ~isMonitoring') =>
               /\ detectCalls' = detectCalls
               /\ captionCalls' = captionCalls
               /\ landmarkPending' = landmarkPending
        /\ (~isMonitoring /\ ~isMonitoring') =>
               /\ ~BatchIssued
               /\ landmarkPending' <= landmarkPending
               /\ count(calls', "analyzeLighting") = 0
               /\ count(calls', "faceMesh.send") = 0
               /\ lastMoonDreamCall' = lastMoonDreamCall ]_vars

\* Monitoring is stopped with a /detect call still in flight, at a time when a cycle
\* would issue a batch.
C7_StoppedWithCallInFlight ==
    ~isMonitoring /\ Len(detectCalls) > 0 /\ throttleOpen(now, lastMoonDreamCall)

\* C8 (as the specification states it): a step that disables a monitor leaves it
\* OFF/disabled; a step that enables one changes no status and no class, and the card
\* it leaves shows OFF/disabled.
C8_ToggleAsymmetric ==
    [][ \A k \in Keys : monitors'[k].enabled # monitors[k].enabled =>
            IF monitors[k].enabled
            THEN monitors'[k].status = "OFF" /\ monitors'[k].class = "disabled"
            ELSE /\ monitors'[k].status = monitors[k].status
                 /\ monitors'[k].class = monitors[k].class
                 /\ monitors'[k].status = "OFF" /\ monitors'[k].class = "disabled" ]_vars

\* C9: a handler issues at most one /detect call, whichever of presence and composition
\* are enabled, and the callback of a /detect call writes presence and composition from
\* the one outcome of that call: each enabled one gets the status of that outcome, each
\* disabled one stays as it is.
C9_OneSharedDetect ==
    [][ /\ count(calls', "ApiClient.detect") <= 1
        /\ Len(detectCalls') <= Len(detectCalls) + 1
        /\ Len(detectCalls') < Len(detectCalls) =>
               \E ev \in XhrEvents, objects \in DetectBodies :
                   LET p == IF ApiClient_request(ev) THEN analyzePresence(objects)
                                                     ELSE St("ERROR", "warning")
                       c == IF ApiClient_request(ev) THEN analyzeComposition(objects)
                                                     ELSE St("ERROR", "warning")
                   IN  /\ monitors'.presence =
                              IF monitors.presence.enabled
                              THEN [enabled |-> TRUE, status |-> p.status, class |-> p.class]
                              ELSE monitors.presence
                       /\ monitors'.composition =
                              IF monitors.composition.enabled
                              THEN [enabled |-> TRUE, status |-> c.status, class |-> c.class]
                              ELSE monitors.composition ]_vars

\* With presence and composition both enabled one batch has been issued, and both
\* cards show what its /detect response says.
C9_BothFromOneResponse ==
    /\ Len(batchTimes) = 1 /\ Len(detectCalls) = 0
    /\ monitors.presence.enabled /\ monitors.presence.status = "PRESENT"
    /\ monitors.composition.enabled /\ monitors.composition.status = "GOOD"

\* C10: when a /detect call is rejected (no key, a status outside 2xx, a body that is
\* not JSON, a network error, a timeout), presence shows ERROR/warning if it is enabled
\* and is left alone if not, and so does composition, each by its own flag; a timeout
\* is such a rejection.
C10_DetectFailureShowsError ==
    [][ /\ ~ApiClient_request(XhrTimeout)
        /\ \A i \in 1..Len(detectCalls), ev \in XhrEvents, objects \in DetectBodies :
               (~ApiClient_request(ev) /\ DetectSettled(i, ApiClient_detect(ev, objects))) =>
                   \A k \in {"presence", "composition"} :
                       monitors'[k] = IF monitors[k].enabled
                                      THEN [enabled |-> TRUE, status |-> "ERROR", class |-> "warning"]
                                      ELSE monitors[k] ]_vars

\* A /detect call has failed with presence enabled and composition disabled.
C10_ErrorOnPresenceOnly ==
    /\ monitors.presence.enabled /\ monitors.presence.status = "ERROR"
    /\ monitors.presence.class = "warning"
    /\ ~monitors.composition.enabled /\ monitors.composition.status = "OFF"

\* C11: when a /caption call resolves, sceneContext shows UPDATED/good and the scene
\* text becomes the caption of the response ("No description" for an empty one); when
\* it is rejected, sceneContext shows ERROR/warning and the scene text stays as it was.
C11_CaptionOutcome ==
    [][ \A i \in 1..Len(captionCalls), ev \in XhrEvents, text \in CaptionBodies :
            CaptionSettled(i, ApiClient_caption(ev, text)) =>
                IF ApiClient_request(ev)
                THEN /\ monitors'.sceneContext.status = "UPDATED"
                     /\ monitors'.sceneContext.class = "good"
                     /\ sceneText' = (IF text = "" THEN "No description" ELSE text)
                ELSE /\ monitors'.sceneContext.status = "ERROR"
                     /\ monitors'.sceneContext.class = "warning"
                     /\ sceneText' = sceneText ]_vars

\* A /caption call has failed after an earlier one succeeded: the card shows the
\* error, the text is still the caption of the earlier response.
C11_ErrorKeepsCaption ==
    /\ monitors.sceneContext.status = "ERROR" /\ monitors.sceneContext.class = "warning"
    /\ sceneText \in CaptionBodies

\* The monitors other than those in ks are as they were.
OthersUnchanged(ks) == \A k \in Keys \ ks : monitors'[k] = monitors[k]

\* C12: the analyzers do not depend on one another.  A landmark callback with a face
\* writes, for each of orientation, talking and focus that is enabled (focus: and
\* OpenCV ready), the status of that analyzer alone, whatever the other two end in; a
\* cycle sends the FaceMesh pass and the remote batch as the flags and the throttle
\* say, whatever analyzeLighting ends in; and a landmark callback changes no card but
\* orientation, talking and focus, a cycle none but lighting, a /detect callback none
\* but presence and composition and no /caption call, a /caption callback none but
\* sceneContext and no /detect call.
C12_FaultIsolation ==
    [][ /\ \A results \in FaultResults, variance \in VarianceInputs, throws \in BOOLEAN :
               (isMonitoring /\ Len(results) > 0 /\ onResults(results, variance, throws)) =>
                   LET lm == smoothLandmarks(landmarkHistory', results[1]) IN
                   /\ monitors.orientation.enabled =>
                          St(monitors'.orientation.status, monitors'.orientation.class)
                              = analyzeOrientation(lm)
                   /\ monitors.talking.enabled =>
                          St(monitors'.talking.status, monitors'.talking.class)
                              = analyzeTalking(lm, talkingState, now).st
                   /\ (monitors.focus.enabled /\ cvReady) =>
                          St(monitors'.focus.status, monitors'.focus.class)
                              = analyzeFocus(lm, cvReady, focusSource, variance, throws)
        /\ landmarkPending' < landmarkPending =>
               OthersUnchanged({"orientation", "talking", "focus"})
        /\ pc = "start_cycle" =>
               /\ calls' = cycleCalls(monitors, isMonitoring, faceMesh, stream, currentImage,
                                      now, lastMoonDreamCall)
               /\ Len(detectCalls') - Len(detectCalls) = count(calls', "ApiClient.detect")
               /\ Len(captionCalls') - Len(captionCalls) = count(calls', "ApiClient.caption")
               /\ landmarkPending' - landmarkPending = count(calls', "faceMesh.send")
               /\ OthersUnchanged({"lighting"})
        /\ Len(detectCalls') < Len(detectCalls) =>
               /\ OthersUnchanged({"presence", "composition"})
               /\ captionCalls' = captionCalls
        /\ Len(captionCalls') < Len(captionCalls) =>
               /\ OthersUnchanged({"sceneContext"})
               /\ detectCalls' = detectCalls ]_vars

\* One session in which orientation, focus, lighting and the /detect call failed
\* while talking and the /caption call succeeded.
C12_FailuresBesideResults ==
    /\ monitors.orientation.status = "ERROR" /\ monitors.focus.status = "CV ERROR"
    /\ monitors.lighting.status = "ERROR" /\ monitors.presence.status = "ERROR"
    /\ monitors.talking.status = "SILENT" /\ monitors.sceneContext.status = "UPDATED"

\* C13 (as the specification states it): a landmark callback with a face, focus being
\* enabled, leaves focus at CV N/A when OpenCV is not ready, else at NO DATA when an
\* eye or the nose tip is missing, else at NO SOURCE when there is no frame source, else
\* at WAITING when the source is smaller than 40x40, each with class warning.
C13_FocusPreconditionsShown ==
    [][ \A results \in FaultResults, variance \in VarianceInputs, throws \in BOOLEAN :
            (/\ isMonitoring /\ Len(results) > 0 /\ monitors.focus.enabled
             /\ onResults(results, variance, throws)) =>
                LET lm == smoothLandmarks(landmarkHistory', results[1])
                    located == {LEFT_EYE, RIGHT_EYE, NOSE_TIP} \subseteq DOMAIN lm
                    shown == St(monitors'.focus.status, monitors'.focus.class)
                IN  /\ ~cvReady => shown = St("CV N/A", "warning")
                    /\ (cvReady /\ ~located) => shown = St("NO DATA", "warning")
                    /\ (cvReady /\ located /\ ~focusSource.present) =>
                           shown = St("NO SOURCE", "warning")
                    /\ (cvReady /\ located /\ focusSource.present
                        /\ (focusSource.w < 40 \/ focusSource.h < 40)) =>
                           shown = St("WAITING", "warning") ]_vars

\* ceil(a / b) for positive b.
CeilDiv(a, b) == (a + b - 1) \div b

\* The batches issued by the five cycles at t, t + 1500, ..., t + 6000.
BatchesOfFiveCycles(t) ==
    {j \in 1..Len(batchTimes) : t <= batchTimes[j] /\ batchTimes[j] <= t + 4 * CyclePeriod}

\* C14: the cycles of a session whose timer fires on time are 1500 ms apart, and any
\* five consecutive ones issue at most ceil(5 * 1500 / 2000) = 4 remote batches.
C14_FiveCyclesThrottled ==
    \A k \in 0..(3 * MaxCycles) :
        Cardinality(BatchesOfFiveCycles(StartTime + k * CycleStep))
            <= CeilDiv(5 * CyclePeriod, ThrottleWindow)

\* Five cycles of one session have run, 1500 ms apart, and three of them issued a batch.
C14_FiveCyclesRun ==
    /\ isMonitoring /\ Len(batchTimes) = 3
    /\ batchTimes[3] = batchTimes[1] + 4 * CyclePeriod

\* The landmark callback of the first cycle has run and the two remote calls of the
\* first batch have ended.
FirstCycleAnswered ==
    /\ isMonitoring /\ pc = "idle"
    /\ Len(batchTimes) >= 1 /\ Len(landmarkHistory) >= 1
    /\ \A i \in 1..Len(detectCalls) : detectCalls[i] # batchTimes[1]
    /\ \A i \in 1..Len(captionCalls) : captionCalls[i] # batchTimes[1]

\* C15: in a session started with all seven monitors enabled in front of a face that
\* is present, centred, sharp, well lit and silent, once the landmark callback and the
\* two remote calls of the first cycle have ended, the cards show STRAIGHT, SILENT,
\* SHARP, GOOD, PRESENT, GOOD and UPDATED.
C15_GoodPictureStatuses ==
    FirstCycleAnswered =>
        /\ monitors.orientation = [enabled |-> TRUE, status |-> "STRAIGHT", class |-> "good"]
        /\ monitors.talking = [enabled |-> TRUE, status |-> "SILENT", class |-> "warning"]
        /\ monitors.focus = [enabled |-> TRUE, status |-> "SHARP", class |-> "good"]
        /\ monitors.lighting = [enabled |-> TRUE, status |-> "GOOD", class |-> "good"]
        /\ monitors.presence = [enabled |-> TRUE, status |-> "PRESENT", class |-> "good"]
        /\ monitors.composition = [enabled |-> TRUE, status |-> "GOOD", class |-> "good"]
        /\ monitors.sceneContext = [enabled |-> TRUE, status |-> "UPDATED", class |-> "good"]

\* The first cycle has been answered in full before the timer fired a second time.
C15_FirstCycleDone ==
    FirstCycleAnswered /\ Len(batchTimes) = 1 /\ landmarkPending = 0 /\ sceneText \in CaptionBodies

\* C16: a call of analyzeTalking changes the stored isTalking only if the raw
\* measurement (lips more than 0.018 apart) differs from it and more than 150 ms have
\* passed since lastChange; lastChange changes exactly when the flag flips, to the
\* present time; a raw measurement that differs within 150 ms of lastChange leaves
\* both fields as they are; and the card shows TALKING/good or SILENT/warning by the
\* raw measurement alone.
C16_TalkingDebounce ==
    [][ \A gap \in LipGaps : AnalyzeTalking(gap) =>
            LET raw == gap > LipThreshold
                flips == talkingState'.isTalking # talkingState.isTalking
            IN  /\ flips <=> (raw # talkingState.isTalking
                              /\ now - talkingState.lastChange > TalkDebounce)
                /\ flips => (talkingState'.isTalking = raw /\ talkingState'.lastChange = now)
                /\ ~flips => talkingState' = talkingState
                /\ (raw # talkingState.isTalking
                    /\ now - talkingState.lastChange <= TalkDebounce) =>
                       talkingState' = talkingState
                /\ monitors'.talking.status = (IF raw THEN "TALKING" ELSE "SILENT")
                /\ monitors'.talking.class = (IF raw THEN "good" ELSE "warning") ]_vars

\* The stored flag has flipped to talking and back, and then a raw flip came within
\* 150 ms of the last stored flip: the card shows TALKING, the stored flag says silent.
C16_ShownDiffersFromStored ==
    /\ ~talkingState.isTalking /\ talkingState.lastChange > StartTime
    /\ now - talkingState.lastChange <= TalkDebounce
    /\ monitors.talking.status = "TALKING"

\* C17: the landmark history never holds more than 5 frames; a push onto a history
\* that is not full appends the new frame, and a push onto a full history drops
\* exactly the oldest frame and keeps the others, in arrival order, followed by the
\* new one.
C17_BoundedFifo ==
    [][ \A f \in SmootherFrames : SmoothLandmarks(f) =>
            /\ Len(landmarkHistory) <= HistorySize
            /\ Len(landmarkHistory') <= HistorySize
            /\ (Len(landmarkHistory) < HistorySize =>
                    landmarkHistory' = landmarkHistory \o <<f>>)
            /\ (Len(landmarkHistory) = HistorySize =>
                    landmarkHistory' = Tail(landmarkHistory) \o <<f>>) ]_vars

\* A full history of frames that are not all alike, the newest differing from the
\* oldest: the next push has to evict.
C17_FullHistory ==
    /\ Len(landmarkHistory) = HistorySize
    /\ landmarkHistory[1] = FrameFlat
    /\ landmarkHistory[2] = FrameCut
    /\ landmarkHistory[HistorySize] = FrameStraight

\* The frames of the history that define landmark i, and those of them whose point
\* carries a z.
FramesDefining(i) == {j \in 1..Len(landmarkHistory) : i \in DOMAIN landmarkHistory[j]}
FramesWithZ(i) == {j \in FramesDefining(i) : "z" \in DOMAIN landmarkHistory[j][i]}

\* The coordinate c of landmark i in frame j if j is in the set js, else nothing.
Term(js, i, c, j) ==
    IF j \notin js THEN 0
    ELSE CASE c = "x" -> landmarkHistory[j][i].x
           [] c = "y" -> landmarkHistory[j][i].y
           [] OTHER   -> landmarkHistory[j][i].z

\* The sum of coordinate c of landmark i over the frames in js.
Total(js, i, c) ==
    Term(js, i, c, 1) + Term(js, i, c, 2) + Term(js, i, c, 3) + Term(js, i, c, 4)
        + Term(js, i, c, 5)

\* The smoothed landmarks of the newest frame.
Smoothed == smoothLandmarks(landmarkHistory, landmarkHistory[Len(landmarkHistory)])

\* C18: for every history of 1 to 5 frames and every landmark i of the newest frame,
\* the smoothed x and y are the means of x and y over the frames that define i, and
\* the smoothed z is the mean of z over the frames that define i and carry a z.
C18_SmoothedIsMean ==
    Len(landmarkHistory) >= 1 =>
        \A i \in DOMAIN landmarkHistory[Len(landmarkHistory)] :
            /\ Smoothed[i].x * Cardinality(FramesDefining(i))
                   = Total(FramesDefining(i), i, "x") * Smoothed[i].n
            /\ Smoothed[i].y * Cardinality(FramesDefining(i))
                   = Total(FramesDefining(i), i, "y") * Smoothed[i].n
            /\ FramesWithZ(i) # {} =>
                   Smoothed[i].z * Cardinality(FramesWithZ(i))
                       = Total(FramesWithZ(i), i, "z") * Smoothed[i].n

\* The x and y parts of C18 alone.
C18_SmoothedXYIsMean ==
    Len(landmarkHistory) >= 1 =>
        \A i \in DOMAIN landmarkHistory[Len(landmarkHistory)] :
            /\ Smoothed[i].x * Cardinality(FramesDefining(i))
                   = Total(FramesDefining(i), i, "x") * Smoothed[i].n
            /\ Smoothed[i].y * Cardinality(FramesDefining(i))
                   = Total(FramesDefining(i), i, "y") * Smoothed[i].n

\* The distances of the smoothed nose tip from the smoothed face edges, and their
\* difference, each times the number of frames in the history.
NoseToLeft ==
    Abs(Total(FramesDefining(NOSE_TIP), NOSE_TIP, "x")
          - Total(FramesDefining(LEFT_FACE), LEFT_FACE, "x"))
NoseToRight ==
    Abs(Total(FramesDefining(NOSE_TIP), NOSE_TIP, "x")
          - Total(FramesDefining(RIGHT_FACE), RIGHT_FACE, "x"))
OrientationDiff == Abs(NoseToLeft - NoseToRight)

\* C19: once a face has been analysed the orientation card shows STRAIGHT/good if the
\* difference between the nose's distances to the two face edges is at most 0.15,
\* and otherwise LEFT/bad if the nose is farther from the left edge than from the
\* right one, else RIGHT/bad.
C19_OrientationClasses ==
    Len(landmarkHistory) >= 1 =>
        monitors.orientation =
            [enabled |-> TRUE,
             status |-> IF OrientationDiff <= OrientationTolerance * Len(landmarkHistory)
                        THEN "STRAIGHT"
                        ELSE IF NoseToLeft > NoseToRight THEN "LEFT" ELSE "RIGHT",
             class |-> IF OrientationDiff <= OrientationTolerance * Len(landmarkHistory)
                       THEN "good" ELSE "bad"]

\* Two faces smoothed to a difference of exactly 0.15, shown as STRAIGHT.
C19_StraightAtTolerance ==
    /\ Len(landmarkHistory) = 2
    /\ OrientationDiff = OrientationTolerance * Len(landmarkHistory)
    /\ monitors.orientation.status = "STRAIGHT"

\* The lighting statuses and the range of average brightness each stands for.
LightingStatuses == {"DARK", "DIM", "GOOD", "BRIGHT", "OVEREXPOSED"}
InLightingRange(lum, status) ==
    CASE status = "DARK"   -> lum < 50
      [] status = "DIM"    -> 50 <= lum /\ lum < 90
      [] status = "GOOD"   -> 90 <= lum /\ lum <= 180
      [] status = "BRIGHT" -> 180 < lum /\ lum <= 220
      [] OTHER             -> lum > 220
LightingClassOf(status) ==
    CASE status \in {"DARK", "OVEREXPOSED"} -> "bad"
      [] status \in {"DIM", "BRIGHT"}       -> "warning"
      [] OTHER                              -> "good"

\* C20: a cycle that measures an average brightness lum in 0..255 leaves the lighting
\* card at DARK/bad below 50, DIM/warning from 50 up to but excluding 90, GOOD/good
\* from 90 to 180, BRIGHT/warning above 180 up to 220, OVEREXPOSED/bad above 220;
\* 49 is DARK, 50 DIM, 90 and 180 GOOD, 181 and 220 BRIGHT, 221 OVEREXPOSED; and
\* every brightness lies in the range of exactly one status.
C20_LightingClasses ==
    [][ \A lum \in Luminances : (startCycle({lum}) \/ timerFire({lum})) =>
            /\ Cardinality({s \in LightingStatuses : InLightingRange(lum, s)}) = 1
            /\ monitors'.lighting.status \in LightingStatuses
            /\ InLightingRange(lum, monitors'.lighting.status)
            /\ monitors'.lighting.class = LightingClassOf(monitors'.lighting.status)
            /\ (lum = 49 => monitors'.lighting.status = "DARK")
            /\ (lum = 50 => monitors'.lighting.status = "DIM")
            /\ (lum \in {90, 180} => monitors'.lighting.status = "GOOD")
            /\ (lum \in {181, 220} => monitors'.lighting.status = "BRIGHT")
            /\ (lum = 221 => monitors'.lighting.status = "OVEREXPOSED") ]_vars

\* The timer has fired at least once since the start, and the last cycle measured an
\* overexposed picture.
C20_OverexposedAtTimer ==
    /\ isMonitoring /\ Len(batchTimes) >= 1
    /\ monitorInterval.armed /\ monitorInterval.due > batchTimes[1] + CyclePeriod
    /\ monitors.lighting = [enabled |-> TRUE, status |-> "OVEREXPOSED", class |-> "bad"]

\* C21: a landmark callback in which analyzeFocus measures the sharpness value v
\* leaves the focus card at SHARP/good if v is above 12, at OK/warning if v is above
\* 6 and at most 12, and at BLURRY/bad if v is 6 or below; 12 gives OK, 6 gives
\* BLURRY and 13 gives SHARP.
C21_FocusClasses ==
    [][ \A v \in FocusValues : LandmarkCallback(<<FrameStraight>>, v) =>
            /\ monitors'.focus.status =
                   (IF v > 12 THEN "SHARP" ELSE IF 6 < v /\ v <= 12 THEN "OK" ELSE "BLURRY")
            /\ monitors'.focus.class =
                   (IF v > 12 THEN "good" ELSE IF 6 < v /\ v <= 12 THEN "warning" ELSE "bad")
            /\ (v = 12 => monitors'.focus.status = "OK")
            /\ (v = 6 => monitors'.focus.status = "BLURRY")
            /\ (v = 13 => monitors'.focus.status = "SHARP") ]_vars

\* The second FaceMesh pass of a session has been answered and the patch measured
\* between the thresholds.
C21_FocusOkOnSecondPass ==
    /\ isMonitoring /\ Len(landmarkHistory) = 2
    /\ monitors.focus = [enabled |-> TRUE, status |-> "OK", class |-> "warning"]

\* The size, horizontal and vertical tags of a box, each the empty string when the
\* box gives none.
SizeTag(face) ==
    IF face.x_max - face.x_min > 500 \/ face.y_max - face.y_min > 600 THEN "TOO CLOSE"
    ELSE IF face.x_max - face.x_min < 150 /\ face.y_max - face.y_min < 200 THEN "TOO FAR"
    ELSE ""
HorizontalTag(face) ==
    IF face.x_min + face.x_max < 2 * 300 THEN "-> RIGHT"
    ELSE IF face.x_min + face.x_max > 2 * 700 THEN "<- LEFT"
    ELSE ""
VerticalTag(face) ==
    IF face.y_min + face.y_max < 2 * 250 THEN "v DOWN"
    ELSE IF face.y_min + face.y_max > 2 * 750 THEN "^ UP"
    ELSE ""

\* Two tag strings joined by a space, none where one of them is empty.
Spaced(a, b) == IF a = "" THEN b ELSE IF b = "" THEN a ELSE a \o " " \o b

\* C22: a /detect response with at least one box, composition being enabled, leaves
\* the composition card at GOOD/good if the first box gives no tag, and otherwise at
\* its size tag, horizontal tag and vertical tag, in this order and joined by spaces,
\* with class bad; a first box of width 0.6 centred both ways gives exactly TOO CLOSE.
C22_CompositionTags ==
    [][ \A objects \in CompositionBodies :
          (/\ monitors.composition.enabled
           /\ \E i \in 1..Len(detectCalls) : DetectSettled(i, DetectResponse(objects))) =>
            LET face == objects[1]
                tags == Spaced(SizeTag(face), Spaced(HorizontalTag(face), VerticalTag(face)))
            IN  /\ monitors'.composition.status = (IF tags = "" THEN "GOOD" ELSE tags)
                /\ monitors'.composition.class = (IF tags = "" THEN "good" ELSE "bad")
                /\ (face = BoxAt(500, 500, 600, 400) =>
                       monitors'.composition.status = "TOO CLOSE") ]_vars

\* A response whose first box is too wide and too high up has been handled.
C22_CloseAndHigh ==
    /\ isMonitoring
    /\ monitors.composition = [enabled |-> TRUE, status |-> "TOO CLOSE v DOWN", class |-> "bad"]

\* C23: a successful /detect response leaves presence, if enabled, at PRESENT/good
\* when it holds at least one object and at ABSENT/bad when it holds none; with no
\* object it leaves composition, if enabled, at NO FACE/bad; and a response without
\* objects puts no monitor at ERROR.
C23_PresenceFromDetect ==
    [][ \A objects \in DetectBodies :
          (\E i \in 1..Len(detectCalls) : DetectSettled(i, DetectResponse(objects))) =>
            /\ monitors.presence.enabled =>
                   /\ monitors'.presence.status = (IF Len(objects) > 0 THEN "PRESENT" ELSE "ABSENT")
                   /\ monitors'.presence.class = (IF Len(objects) > 0 THEN "good" ELSE "bad")
            /\ (Len(objects) = 0 /\ monitors.composition.enabled) =>
                   /\ monitors'.composition.status = "NO FACE"
                   /\ monitors'.composition.class = "bad"
            /\ Len(objects) = 0 =>
                   \A k \in Keys : monitors'[k].status = "ERROR" => monitors[k].status = "ERROR"
      ]_vars

\* An empty response has been handled with both monitors enabled.
C23_NobodyThere ==
    /\ isMonitoring /\ detectCalls = <<>>
    /\ monitors.presence = [enabled |-> TRUE, status |-> "ABSENT", class |-> "bad"]
    /\ monitors.composition = [enabled |-> TRUE, status |-> "NO FACE", class |-> "bad"]

\* The landmark callback of a monitoring session is handed results.
CallbackWith(results) ==
    /\ isMonitoring
    /\ \E variance \in VarianceInputs, throws \in BOOLEAN : onResults(results, variance, throws)

\* C24: a landmark callback that reports no face leaves each enabled one of
\* orientation, talking and focus at NO FACE/bad; one that reports a face without
\* the right face edge leaves an enabled orientation at ERROR/warning; one that
\* reports a face without the lower lip leaves an enabled talking at ERROR/warning
\* and the talking hysteresis state as it was.
C24_LandmarkPreconditions ==
    [][ /\ CallbackWith(NoFace) =>
            \A k \in {"orientation", "talking", "focus"} :
                monitors[k].enabled =>
                    monitors'[k] = [enabled |-> TRUE, status |-> "NO FACE", class |-> "bad"]
        /\ (CallbackWith(<<FrameNoRightEdge>>) \/ CallbackWith(<<FrameNoseAndLip>>)) =>
            (monitors.orientation.enabled =>
                monitors'.orientation = [enabled |-> TRUE, status |-> "ERROR", class |-> "warning"])
        /\ CallbackWith(<<FrameNoseAndLip>>) =>
            /\ monitors.talking.enabled =>
                   monitors'.talking = [enabled |-> TRUE, status |-> "ERROR", class |-> "warning"]
            /\ talkingState' = talkingState ]_vars

\* A face of which only the nose tip and the upper lip were delivered has been handled.
C24_OnlyNoseAndLip ==
    /\ isMonitoring /\ landmarkHistory = <<FrameNoseAndLip>>
    /\ monitors.orientation.status = "ERROR" /\ monitors.talking.status = "ERROR"

\* No face was found with all three landmark monitors enabled.
C24_NoFaceShown ==
    /\ isMonitoring /\ landmarkHistory = <<>> /\ landmarkPending = 0
    /\ \A k \in {"orientation", "talking", "focus"} :
           monitors[k] = [enabled |-> TRUE, status |-> "NO FACE", class |-> "bad"]

\* C25 (first part): a cycle of a monitoring session in which lighting is enabled
\* calls analyzeLighting once, whether or not FaceMesh is set up or has ever
\* delivered a face.
C25_LightingEveryCycle ==
    [][ (isMonitoring /\ monitors.lighting.enabled /\ (StartCycle \/ TimerFire)) =>
            count(calls', "analyzeLighting") = 1 ]_vars

\* C25: a cycle of a monitoring session in which lighting is enabled calls
\* analyzeLighting once, whether or not a face was ever detected, and if neither the
\* webcam nor an uploaded image is there to take a frame from it leaves the lighting
\* card at N/A/disabled.
C25_LightingNeedsNoFace ==
    [][ (isMonitoring /\ monitors.lighting.enabled /\ (StartCycle \/ TimerFire)) =>
            /\ count(calls', "analyzeLighting") = 1
            /\ ~hasFrameSource(stream, currentImage) =>
                   monitors'.lighting = [enabled |-> TRUE, status |-> "N/A", class |-> "disabled"]
      ]_vars

\* C26: while the session is monitoring, a /detect call that succeeds replaces an
\* ERROR on an enabled presence or composition card by what the response says, and
\* a /caption call that succeeds replaces an ERROR on an enabled sceneContext card
\* by UPDATED/good.
C26_ErrorNotStuck ==
    [][ /\ \A objects \in DetectBodies :
              (/\ isMonitoring
               /\ \E i \in 1..Len(detectCalls) : DetectSettled(i, DetectResponse(objects))) =>
                /\ (monitors.presence.enabled /\ monitors.presence.status = "ERROR") =>
                       monitors'.presence.status = (IF Len(objects) > 0 THEN "PRESENT" ELSE "ABSENT")
                /\ (monitors.composition.enabled /\ monitors.composition.status = "ERROR") =>
                       monitors'.composition.status = (IF Len(objects) > 0 THEN "GOOD" ELSE "NO FACE")
        /\ \A text \in CaptionBodies :
              (/\ isMonitoring
               /\ \E i \in 1..Len(captionCalls) : CaptionSettled(i, CaptionResponse(text))) =>
                ((monitors.sceneContext.enabled /\ monitors.sceneContext.status = "ERROR") =>
                    monitors'.sceneContext = [enabled |-> TRUE, status |-> "UPDATED", class |-> "good"])
      ]_vars

\* The calls of the first batch have failed, all three cards show ERROR, and the
\* calls of the second batch are in flight.
C26_ErrorBeforeSecondAnswer ==
    /\ isMonitoring /\ Len(batchTimes) = 2
    /\ detectCalls = <<batchTimes[2]>> /\ captionCalls = <<batchTimes[2]>>
    /\ \A k \in {"presence", "composition", "sceneContext"} :
           monitors[k] = [enabled |-> TRUE, status |-> "ERROR", class |-> "warning"]

\* C27: between handlers a periodic timer is armed if and only if the session is
\* monitoring; the monitoring flag changes only in startMonitoring, stopMonitoring
\* and unmount; and setInterval is called only when no timer is armed, so that never
\* more than one is.
C27_TimerIffMonitoring ==
    [][ /\ pc' = "idle" => (monitorInterval'.armed <=> isMonitoring')
        /\ isMonitoring' # isMonitoring => (StartMonitoring \/ StopMonitoring \/ Unmount)
        /\ StartArm => (~monitorInterval.armed /\ isMonitoring)
        /\ count(calls', "setInterval") <= 1 ]_vars

\* A session was started and the widget unmounted while it ran: no timer is left.
C27_UnmountedWhileMonitoring ==
    /\ ~mounted /\ ~isMonitoring /\ ~monitorInterval.armed
    /\ Len(batchTimes) >= 1 /\ clicks = 0

\* The place of a call in the order of a cycle: the landmark request, then Lighting,
\* then the remote batch.
CycleRank(call) ==
    CASE call = "faceMesh.send"   -> 1
      [] call = "analyzeLighting" -> 2
      [] OTHER                    -> 3

\* C28: the first cycle of a session makes its calls in a fixed order: the FaceMesh
\* request if FaceMesh is set up and the webcam runs, then analyzeLighting if
\* lighting is enabled, then the calls of the remote batch; analyzeLighting is never
\* preceded by a remote call of the same cycle.
C28_CycleOrder ==
    [][ StartCycleFaulty =>
            /\ \A i, j \in 1..Len(calls') : i < j => CycleRank(calls'[i]) <= CycleRank(calls'[j])
            /\ count(calls', "faceMesh.send") = (IF faceMesh /\ stream THEN 1 ELSE 0)
            /\ count(calls', "analyzeLighting") = (IF monitors.lighting.enabled THEN 1 ELSE 0)
            /\ (count(calls', "ApiClient.detect") + count(calls', "ApiClient.caption") > 0) =>
                   /\ lastMoonDreamCall' = now
                   /\ monitors.lighting.enabled => calls'[Len(calls')] # "analyzeLighting"
      ]_vars

\* A first cycle that made all four calls.
C28_AllStepsOfACycle ==
    /\ pc = "start_arm"
    /\ calls = <<"faceMesh.send", "analyzeLighting", "ApiClient.detect", "ApiClient.caption">>

\* The batches of which a call is still in flight, by the time they were issued.
BatchesInFlight ==
    {detectCalls[i] : i \in 1..Len(detectCalls)} \cup {captionCalls[i] : i \in 1..Len(captionCalls)}

\* C29: a timer that is due fires whatever is still pending; a cycle that finds the
\* throttle window open, a frame to send and a remote monitor enabled issues its
\* batch whether or not calls of an earlier batch are in flight; the number of batches in flight grows only in a cycle; and a cycle that
\* starts with no call in flight leaves at most one batch in flight.
C29_CyclesNotBlocked ==
    [][ /\ (pc = "idle" /\ monitorInterval.armed /\ now >= monitorInterval.due) =>
               ENABLED TimerFire
        /\ (/\ TimerFire /\ isMonitoring /\ now - lastMoonDreamCall > ThrottleWindow
            /\ hasFrameSource(stream, currentImage)
            /\ \E k \in {"presence", "composition", "sceneContext"} : monitors[k].enabled) =>
               /\ batchTimes' = Append(batchTimes, now)
               /\ BatchesInFlight' = BatchesInFlight \cup {now}
        /\ Cardinality(BatchesInFlight') > Cardinality(BatchesInFlight) =>
               (StartCycle \/ TimerFire)
        /\ ((StartCycle \/ TimerFire) /\ BatchesInFlight = {}) =>
               Cardinality(BatchesInFlight') <= 1 ]_vars

\* A call of the first batch is still in flight after the second batch was issued:
\* the cycles in between and the one that issued it ran while that call was pending.
C29_TwoBatchesInFlight ==
    /\ isMonitoring /\ Len(batchTimes) = 2
    /\ BatchesInFlight = {batchTimes[1], batchTimes[2]}

\* The status or the class of monitor k changes in this step.
Written(k) ==
    monitors'[k].status # monitors[k].status \/ monitors'[k].class # monitors[k].class

\* The step is one of the analyzer of monitor k, or the toggle of k.
OwnWriter(k) ==
    \/ ToggleMonitor(k)
    \/ /\ k \in {"orientation", "talking", "focus"}
       /\ \E results \in LandmarkResults, variance \in VarianceInputs :
              LandmarkCallback(results, variance)
    \/ /\ k = "lighting"
       /\ (StartCycle \/ TimerFire)
    \/ /\ k \in {"presence", "composition"}
       /\ \E i \in 1..Len(detectCalls), ev \in XhrEvents, objects \in DetectBodies :
              DetectSettled(i, ApiClient_detect(ev, objects))
    \/ /\ k = "sceneContext"
       /\ \E i \in 1..Len(captionCalls), ev \in XhrEvents, text \in CaptionBodies :
              CaptionSettled(i, ApiClient_caption(ev, text))

\* C30 as stated: the status and class of a monitor change only in a step of its own
\* analyzer (the landmark callback for orientation, talking and focus; Lighting for
\* lighting; the /detect callback for presence and composition; the /caption
\* callback for sceneContext) or in toggle(key) for that key.
C30_OnlyOwnWriter ==
    [][ \A k \in Keys : Written(k) => OwnWriter(k) ]_vars

\* C30, amended: the status and class of a monitor change only in a step of its own
\* analyzer, in toggle(key) for that key, or in startMonitoring, which sets every
\* enabled monitor to Analyzing.../warning.
C30_OwnWriterOrStart ==
    [][ \A k \in Keys : Written(k) =>
            \/ OwnWriter(k)
            \/ /\ StartMonitoring
               /\ monitors[k].enabled
               /\ monitors'[k] = [enabled |-> TRUE, status |-> "Analyzing...", class |-> "warning"]
      ]_vars

\* startMonitoring has just reset the cards of a widget on which one monitor had been
\* switched off.
C30_ResetByStart ==
    /\ pc = "start_cycle" /\ isMonitoring
    /\ \E off \in Keys :
           /\ monitors[off] = [enabled |-> FALSE, status |-> "OFF", class |-> "disabled"]
           /\ \A k \in Keys \ {off} :
                  monitors[k] = [enabled |-> TRUE, status |-> "Analyzing...", class |-> "warning"]

\* C31: the monitor map has exactly the seven keys orientation, talking, focus,
\* lighting, presence, composition and sceneContext before and after every step, and
\* toggleMonitor or updateMonitorStatus with any other key leaves the map as it was.
C31_KeysFixed ==
    [][ /\ DOMAIN monitors = {"orientation", "talking", "focus", "lighting", "presence",
                              "composition", "sceneContext"}
        /\ DOMAIN monitors' = DOMAIN monitors
        /\ \A key \in OtherKeys : (ToggleAny(key) \/ UpdateAny(key)) => monitors' = monitors
      ]_vars

\* Three calls with keys that name no monitor have been made: the map is as constructed.
C31_UnknownKeysIgnored ==
    /\ clicks = 0
    /\ monitors = [k \in Keys |-> [enabled |-> TRUE, status |-> "N/A", class |-> "disabled"]]

\* What a settled /detect call hands to its callbacks.
DetectOutcomesSeen == {DetectRejected} \cup {DetectResponse(objects) : objects \in DetectBodies}

\* The i-th /detect call in flight was issued before the newest batch, and no call of
\* a later batch is in flight with it: the /detect call of every later batch has
\* settled already.
Overtaken(i) ==
    /\ i \in 1..Len(detectCalls)
    /\ Len(batchTimes) > 0
    /\ detectCalls[i] < batchTimes[Len(batchTimes)]
    /\ \A j \in 1..Len(detectCalls) : detectCalls[j] <= detectCalls[i]

NoneAnalyzing == \A k \in Keys : monitors[k].enabled => monitors[k].status # "Analyzing..."

\* C33: in a session that stays Monitoring with the webcam running and FaceMesh set
\* up, the timer firing and every callback delivered, every enabled monitor comes to
\* show a status other than Analyzing...
C33_EveryMonitorAnswers == isMonitoring ~> NoneAnalyzing

\* C36: in a session that stays Monitoring with a frame available and the timer firing
\* every 1500 ms, the remote batches do not cease: as long as two more timer periods
\* lie ahead, another batch is issued; and the timer cycles alternate, a cycle issues a
\* batch exactly when the cycle before it did not.
C36_BatchEverySecondCycle ==
    /\ \A n \in 0..MaxCycles :
           (isMonitoring /\ Len(batchTimes) = n /\ now + 2 * CyclePeriod <= CyclesEndTime)
               ~> (Len(batchTimes) > n)
    /\ [][ (TimerFire /\ isMonitoring) =>
               /\ now - lastMoonDreamCall \in {CyclePeriod, 2 * CyclePeriod}
               /\ BatchIssued <=> (now - lastMoonDreamCall = 2 * CyclePeriod)
               /\ BatchIssued => batchTimes' = Append(batchTimes, now) ]_vars

\* Three timer cycles after the immediate one: the first cycle and the third issued a
\* batch, the second and the fourth did not.
C36_TwoBatchesInFourCycles ==
    /\ isMonitoring /\ Len(batchTimes) = 2
    /\ batchTimes[2] = batchTimes[1] + 2 * CyclePeriod
    /\ monitorInterval.due = batchTimes[1] + 4 * CyclePeriod

\* C34: a cycle that advances the throttle timestamp while presence, composition or
\* sceneContext is enabled issues a remote request.
C34_WindowNeverWasted ==
    [][ (/\ StartCycle \/ TimerFire
         /\ lastMoonDreamCall' # lastMoonDreamCall
         /\ \E k \in {"presence", "composition", "sceneContext"} : monitors[k].enabled) =>
            BatchIssued ]_vars

\* C35: the throttle timestamp outlives the session: no step lowers it, stopping and
\* starting leave it as it is, any two remote batches are more than 2000 ms apart
\* whatever sessions they belong to, and the immediate cycle of a session started
\* within 2000 ms of the last batch issues no remote call.
C35_ThrottleAcrossSessions ==
    [][ /\ lastMoonDreamCall' >= lastMoonDreamCall
        /\ (StopMonitoring \/ StartMonitoring) => lastMoonDreamCall' = lastMoonDreamCall
        /\ \A j \in 2..Len(batchTimes') : batchTimes'[j] - batchTimes'[j - 1] > ThrottleWindow
        /\ (StartCycle /\ now - lastMoonDreamCall <= ThrottleWindow) =>
               (~BatchIssued /\ lastMoonDreamCall' = lastMoonDreamCall) ]_vars

\* The immediate cycle of a session has run within 2000 ms of a batch of the session
\* before it, and issued nothing.
C35_RestartInsideWindow ==
    /\ pc = "start_arm" /\ isMonitoring
    /\ Len(batchTimes) = 1
    /\ batchTimes[1] < now /\ now - batchTimes[1] <= ThrottleWindow
    /\ lastMoonDreamCall = batchTimes[1]

\* What the callbacks of a settled /detect call show on card k.
DetectShown(outcome, k) ==
    IF ~outcome.ok THEN St("ERROR", "warning")
    ELSE IF k = "presence" THEN analyzePresence(outcome.objects)
    ELSE analyzeComposition(outcome.objects)

\* C37: the enabled flags of presence and composition are read when the shared /detect
\* call settles: whatever they were when the call was issued, a monitor that is enabled
\* at that moment is written with the result or the error, and one that is disabled
\* then is left as it is.
C37_FlagsReadOnArrival ==
    [][ \A i \in 1..Len(detectCalls), outcome \in DetectOutcomesSeen :
          DetectSettled(i, outcome) =>
              \A k \in {"presence", "composition"} :
                  /\ monitors[k].enabled =>
                         St(monitors'[k].status, monitors'[k].class) = DetectShown(outcome, k)
                  /\ ~monitors[k].enabled => monitors'[k] = monitors[k] ]_vars

\* The only /detect call was issued with presence disabled, for composition alone, and
\* has settled: presence, enabled while the call was in flight, shows its result.
C37_EnabledInFlight ==
    /\ Len(detectFlags) = 1 /\ detectCalls = <<>>
    /\ ~detectFlags[1].presence /\ detectFlags[1].composition
    /\ monitors.presence.enabled /\ monitors.presence.status \in {"PRESENT", "ABSENT", "ERROR"}

\* C38: with neither a webcam stream nor an uploaded image, toggleMonitoring() while
\* idle cannot start a session: the call shows an error and leaves the widget Idle
\* with no timer armed, no cycle run, no request issued, and every monitor and the
\* throttle timestamp as they were.
C38_StartWithoutSourceRejected ==
    [][ /\ (~stream /\ ~currentImage) => ~ENABLED StartMonitoring
        /\ (~stream /\ ~currentImage /\ ~isMonitoring) => ~isMonitoring'
        /\ StartRejected =>
               /\ ~stream /\ ~currentImage
               /\ calls' = <<"showError">>
               /\ ~isMonitoring' /\ pc' = "idle" /\ monitorInterval' = NoInterval
               /\ monitors' = monitors
               /\ lastMoonDreamCall' = lastMoonDreamCall
               /\ landmarkPending' = landmarkPending
               /\ ~BatchIssued /\ batchTimes' = batchTimes ]_vars

\* A start has just been rejected.
C38_StartRejectedShown ==
    /\ calls = <<"showError">>
    /\ ~isMonitoring /\ ~stream /\ ~currentImage /\ mounted

\* C39: a landmark callback delivered while Idle changes no monitor, appends nothing
\* to the landmark history and leaves the talking state alone; the landmark history
\* changes only in a callback that carries a face during Monitoring, by that face being
\* appended, and so is kept by callbacks without a face, by stop and by start.
C39_IdleCallbackIsNoOp ==
    [][ /\ \A results \in LandmarkResults, variance \in VarianceInputs :
               /\ (LandmarkCallback(results, variance) /\ ~isMonitoring) =>
                      /\ monitors' = monitors
                      /\ landmarkHistory' = landmarkHistory
                      /\ talkingState' = talkingState
               /\ (LandmarkCallback(results, variance) /\ Len(results) = 0) =>
                      landmarkHistory' = landmarkHistory
               /\ (LandmarkCallback(results, variance) /\ Len(results) > 0 /\ isMonitoring) =>
                      landmarkHistory' = pushHistory(landmarkHistory, results[1])
        /\ landmarkHistory' # landmarkHistory =>
               /\ isMonitoring
               /\ \E results \in LandmarkResults, variance \in VarianceInputs :
                      Len(results) > 0 /\ LandmarkCallback(results, variance)
        /\ (StopMonitoring \/ StartMonitoring \/ StartCycle \/ StartArm) =>
               landmarkHistory' = landmarkHistory ]_vars

\* The one FaceMesh pass of a session that was stopped at once has been answered after
\* the stop: orientation still shows what startMonitoring wrote.
C39_AnsweredAfterStop ==
    /\ ~isMonitoring /\ clicks = MaxClicks - 1 /\ now = StartTime
    /\ lastMoonDreamCall = StartTime
    /\ landmarkPending = 0
    /\ landmarkHistory = <<>>
    /\ monitors.orientation.status = "Analyzing..."

====
